---- MODULE Spec2Model ----
(***************************************************************************)
(* SimpleFlow bot: the pull_request.closed handler (documentation publish  *)
(* sequence) of bot/index.js, run against a model of the GitHub git-data   *)
(* API.  The API-Gateway variant and the URL variant of the handler are    *)
(* line-for-line the same sequence of calls; one model covers both.        *)
(*                                                                         *)
(* Text is a sequence of one-character strings, so that startsWith,        *)
(* endsWith and the regular-expression replacements act on characters.     *)
(* A git SHA is modelled by the object it names (git objects are           *)
(* content-addressed).  An awaited call is one atomic step taken at the    *)
(* moment the remote side acts; handlers interleave between such steps.    *)
(*                                                                         *)
(* The service layer the handler calls into is modelled next to it: the    *)
(* invoke of ApiGatewayService and UrlLambdaService, their retry handlers  *)
(* and their batch calls.  An error message is a sequence of words.        *)
(***************************************************************************)
EXTENDS Integers, Sequences, FiniteSets, TLC

\* ---------------------------------------------------------------- bounds
Handlers == {1, 2}
MaxFiles == 2
MaxTime == 2
MaxRetries == 3
MaxBatch == 2

\* ------------------------------------------------------------------ text
StartsWith(s, p) == Len(s) >= Len(p) /\ SubSeq(s, 1, Len(p)) = p

EndsWith(s, p) == Len(s) >= Len(p) /\ SubSeq(s, Len(s) - Len(p) + 1, Len(s)) = p

DocsPrefix == <<"d", "o", "c", "s", "_">>

DocumentedSuffix == <<"_", "d", "o", "c", "u", "m", "e", "n", "t", "e", "d">>

\* [a-zA-Z0-9_-]
BranchChars ==
  {"a","b","c","d","e","f","g","h","i","j","k","l","m","n","o","p","q","r","s","t","u","v","w","x","y","z",
   "A","B","C","D","E","F","G","H","I","J","K","L","M","N","O","P","Q","R","S","T","U","V","W","X","Y","Z",
   "0","1","2","3","4","5","6","7","8","9","_","-"}

KeepBranchChar(c) == c \in BranchChars

\* filePath.replace(/[/\\]/g, "_").replace(/[^a-zA-Z0-9_-]/g, '')
SanitizePath(filePath) ==
  SelectSeq([i \in 1..Len(filePath) |->
               IF filePath[i] \in {"/", "\\"} THEN "_" ELSE filePath[i]],
            KeepBranchChar)

DigitChar(n) == CASE n = 0 -> "0" [] n = 1 -> "1" [] n = 2 -> "2" [] n = 3 -> "3"
                  [] n = 4 -> "4" [] n = 5 -> "5" [] n = 6 -> "6" [] n = 7 -> "7"
                  [] n = 8 -> "8" [] n = 9 -> "9"

\* new Date().toISOString().replace(/[:.]/g, '-'): a fixed-width rendering of
\* the millisecond clock, here two digits between the "T" and the "Z".
Timestamp(t) == <<"T", DigitChar((t \div 10) % 10), DigitChar(t % 10), "Z">>

\* `docs_${sanitizedPath}_${timestamp}`
BranchName(filePath, t) == DocsPrefix \o SanitizePath(filePath) \o <<"_">> \o Timestamp(t)

\* generateUniqueFileName(originalPath, prNumber, repoName): repository,
\* pull request number, time stamp and random id are opaque here, the path
\* has its slashes and backslashes replaced
UniqueFileName(originalPath) ==
  <<"repo", "/PR-", "n", "/", "timestamp", "_", "randomId", "_">>
  \o [i \in 1..Len(originalPath) |->
        IF originalPath[i] \in {"/", "\\"} THEN "_" ELSE originalPath[i]]

\* ---------------------------------------------------------------- inputs
PathAB == <<"a", "/", "b">>
PathA_B == <<"a", "_", "b">>
PathCD == <<"c", ".", "d">>
Paths == {PathAB, PathA_B, PathCD}
\* the two paths the concurrent specification draws its one-file events from
CollidingPaths == {PathAB, PathA_B}

Main == <<"m", "a", "i", "n">>
Feat == <<"f", "e", "a", "t">>
DocsHead == DocsPrefix \o <<"x">>
DocumentedHead == <<"x">> \o DocumentedSuffix
\* a branch left by a run at clock value 0, before the modelled clock starts
OldDocs == BranchName(PathAB, 0)

HeadRefs == {Feat, DocsHead, DocumentedHead}
BaseRefs == {Main, OldDocs}

\* what the documentation function may return
Contents == {"doc1", "doc2"}

NoBlob == "none"
SrcBlob == "src"

\* the repository before any event: every branch at the merge commit
BaseTree == [p \in Paths |-> IF p = PathCD THEN NoBlob ELSE SrcBlob]
BaseCommit0 == [tree |-> BaseTree, parents |-> <<>>, message |-> <<"merge">>]

\* error messages, as sequences of words; includes() is word membership
MsgNotFound == <<"Not", "Found">>
MsgRefExists == <<"Reference", "already", "exists">>
MsgGitEmpty == <<"Git", "Repository", "is", "empty.">>
MsgGatewayTimeout == <<"API", "Gateway", "request", "timeout">>
MsgLambdaTimeout == <<"Lambda", "function", "timeout">>
MsgAccessDenied == <<"Access", "Denied">>
NoErr == <<>>

OctokitMessages == {MsgNotFound, MsgGitEmpty}
InvokeMessages == {MsgGatewayTimeout, MsgLambdaTimeout}
UploadMessages == {MsgAccessDenied}

Includes(msg, word) == \E i \in 1..Len(msg) : msg[i] = word

\* ----------------------------------------------------------------- state
VARIABLES
  now,        \* the millisecond clock read by new Date()
  refs,       \* repository: branch name -> commit
  pulls,      \* repository: open pull requests [head, base]
  pc,         \* per handler: the await it is suspended at
  event,      \* per handler: the webhook payload and the listed files
  fileIdx,    \* per handler: position of the for-of loop over files
  local,      \* per handler: the block-scoped constants of the current file
  err,        \* per handler: message of the error being thrown
  trace,      \* per handler: calls issued for the current file, with outcome
  comments    \* per handler: comments posted on the triggering pull request

vars == <<now, refs, pulls, pc, event, fileIdx, local, err, trace, comments>>

\* the service layer: one retry-handler call and one batch call
VARIABLES
  rpc,        \* retry handler: the await it is suspended at
  rcfg,       \* retry handler: its parameters and the wrapped operation
  attempt,    \* retry handler: the loop counter
  lastError,  \* retry handler: the error caught last
  rout,       \* retry handler: the value returned or the error thrown
  rlog,       \* retry handler: attempts made and delays waited, in order
  bpc,        \* batch call: where it is
  bcfg,       \* batch call: the service variant and the invocations
  bsent,      \* batch call: requests put on the wire, in order
  bcaught,    \* batch call: the error each map callback caught from invoke
  bsettled,   \* batch call: the promise of each map callback
  border,     \* batch call: the order in which the callbacks resolved
  bout,       \* batch call: the array returned or the error thrown
  blog        \* the records written to the service's logger at info and error level

\* the other event handlers of the bot
VARIABLES
  history,    \* the global object `history` of the pull_request.opened handler
  summaries,  \* per handler: the summaries payload sent to the summary function
  prBody,     \* per handler: the body written by pulls.update
  own         \* per handler: the results its own analysis invocations returned

\* configuration and startup
VARIABLES
  variant,    \* which index.js is deployed: the API Gateway one or the URL one
  boot,       \* how far loading and initialisation of the bot have come
  config,     \* lambdaConfig.config
  invokers,   \* what the service instance and the five invokers captured
  used        \* the last call of an invoker by a handler

botVars == <<history, summaries, prBody, own>>

confVars == <<variant, boot, config, invokers, used>>

retryVars == <<rpc, rcfg, attempt, lastError, rout, rlog>>

batchVars == <<bpc, bcfg, bsent, bcaught, bsettled, border, bout, blog>>

allVars == <<vars, retryVars, batchVars, botVars, confVars>>

NoEvent == [merged |-> FALSE, headRef |-> <<>>, baseRef |-> <<>>, files |-> <<>>]

Events == [merged : BOOLEAN, headRef : HeadRefs, baseRef : BaseRefs, files : {<<>>}]

\* the events of the concurrent specification: pull requests from feat into main
MainEvents == {e \in Events : e.headRef = Feat /\ e.baseRef = Main}

NoLocal == [uploaded |-> <<>>, fileId |-> <<>>,
            branchName |-> <<>>, documentedContent |-> NoBlob,
            latestCommitSha |-> <<>>, blob |-> NoBlob, baseCommit |-> <<>>,
            newTree |-> <<>>, newCommit |-> <<>>]

FileSeqs == UNION {[1..n -> Paths] : n \in 0..MaxFiles}

\* position of a path in the order of file names ("/" sorts before "_")
PathRank(p) == CASE p = PathAB -> 1 [] p = PathA_B -> 2 [] p = PathCD -> 3

\* pulls.listFiles returns each changed file once, ordered by file name
Listed(fs) == \A i, j \in 1..Len(fs) : i < j => PathRank(fs[i]) < PathRank(fs[j])

Init ==
  /\ now = 1
  /\ refs = [b \in HeadRefs \cup BaseRefs |-> BaseCommit0]
  /\ pulls = {}
  /\ pc = [h \in Handlers |-> "idle"]
  /\ event = [h \in Handlers |-> NoEvent]
  /\ fileIdx = [h \in Handlers |-> 1]
  /\ local = [h \in Handlers |-> NoLocal]
  /\ err = [h \in Handlers |-> NoErr]
  /\ trace = [h \in Handlers |-> <<>>]
  /\ comments = [h \in Handlers |-> <<>>]
  /\ history = <<>>
  /\ summaries = [h \in Handlers |-> <<>>]
  /\ prBody = [h \in Handlers |-> <<>>]
  /\ own = [h \in Handlers |-> <<>>]
  /\ rpc = "idle" /\ rcfg = <<>> /\ attempt = 0 /\ lastError = <<>>
  /\ rout = <<>> /\ rlog = <<>>
  /\ bpc = "idle" /\ bcfg = <<>> /\ bsent = <<>> /\ bcaught = <<>>
  /\ bsettled = <<>> /\ border = <<>> /\ bout = <<>> /\ blog = <<>>
  /\ variant = "none" /\ boot = "unloaded" /\ config = <<>>
  /\ invokers = <<>> /\ used = <<>>

\* ------------------------------------------------------- step vocabulary
Goto(h, label) == pc' = [pc EXCEPT ![h] = label]

Logged(h, call, ok) ==
  trace' = [trace EXCEPT ![h] = Append(@, [call |-> call, ok |-> ok])]

ThrowSwallowsSummary(h, call, msg, catchLabel) ==
  /\ Goto(h, IF call = "summary" THEN "oUpdate" ELSE catchLabel)
  /\ err' = [err EXCEPT ![h] = IF call = "summary" THEN NoErr ELSE msg]
  /\ Logged(h, call, FALSE)

\* an awaited call rejects: control moves to the enclosing catch
Throw(h, call, msg, catchLabel) ==
  /\ Goto(h, catchLabel)
  /\ err' = [err EXCEPT ![h] = msg]
  /\ Logged(h, call, FALSE)

Post(h, body) == comments' = [comments EXCEPT ![h] = Append(@, body)]

FilePath(h) == event[h].files[fileIdx[h]]

\* the handler function returns (or rejects): its context is released
Return(h, label) ==
  /\ Goto(h, label)
  /\ event' = [event EXCEPT ![h] = NoEvent]
  /\ fileIdx' = [fileIdx EXCEPT ![h] = 1]

\* end of one iteration of `for (const file of files)`
FinishFile(h) ==
  IF fileIdx[h] < Len(event[h].files)
    THEN /\ Goto(h, "getContent")
         /\ fileIdx' = [fileIdx EXCEPT ![h] = @ + 1]
         /\ UNCHANGED event
    ELSE Return(h, "done")

\* the body of the per-file failure comment, by its variable parts
ErrorBody(filePath, msg) ==
  [type |-> "failed", file |-> filePath,
   issue |-> IF Includes(msg, "Lambda") THEN "lambda"
             ELSE IF Includes(msg, "Git") \/ Includes(msg, "branch") THEN "git"
             ELSE IF Includes(msg, "S3") \/ Includes(msg, "upload") THEN "storage"
             ELSE "error",
   detail |-> IF Includes(msg, "Lambda") \/ Includes(msg, "Git") \/ Includes(msg, "branch")
                 \/ Includes(msg, "S3") \/ Includes(msg, "upload")
              THEN <<>> ELSE msg]

\* ------------------------------------------------------------- the clock
Tick ==
  /\ now < MaxTime
  /\ now' = now + 1
  /\ UNCHANGED <<refs, pulls, pc, event, fileIdx, local, err, trace, comments>>

\* ------------------------------------------- pull_request.closed handler
ReceiveEventOf(h, events) ==
  /\ pc[h] = "idle"
  /\ \E e \in events : event' = [event EXCEPT ![h] = e]
  /\ Goto(h, "guard")
  /\ UNCHANGED <<now, refs, pulls, fileIdx, local, err, trace, comments>>

GuardIgnoresDocsPrefix(h) ==
  /\ pc[h] = "guard"
  /\ IF \/ ~event[h].merged
        \/ EndsWith(event[h].headRef, DocumentedSuffix)
       THEN Return(h, "done")
       ELSE Goto(h, "cProcessing") /\ UNCHANGED <<event, fileIdx>>
  /\ UNCHANGED <<now, refs, pulls, local, err, trace, comments>>

GuardIgnoresMerged(h) ==
  /\ pc[h] = "guard"
  /\ IF \/ EndsWith(event[h].headRef, DocumentedSuffix)
        \/ StartsWith(event[h].headRef, DocsPrefix)
       THEN Return(h, "done")
       ELSE Goto(h, "cProcessing") /\ UNCHANGED <<event, fileIdx>>
  /\ UNCHANGED <<now, refs, pulls, local, err, trace, comments>>

\* if (!merged) return; if (headRef.endsWith('_documented') || headRef.startsWith('docs_')) return;
Guard(h) ==
  /\ pc[h] = "guard"
  /\ IF \/ ~event[h].merged
        \/ EndsWith(event[h].headRef, DocumentedSuffix)
        \/ StartsWith(event[h].headRef, DocsPrefix)
       THEN Return(h, "done")
       ELSE Goto(h, "cProcessing") /\ UNCHANGED <<event, fileIdx>>
  /\ UNCHANGED <<now, refs, pulls, local, err, trace, comments>>

\* createComment("Processing pull request changes...") outside any try
CProcessing(h) ==
  /\ pc[h] = "cProcessing"
  /\ \/ /\ Post(h, [type |-> "processing"])
        /\ Goto(h, "listFiles")
        /\ UNCHANGED <<event, fileIdx>>
     \/ /\ Return(h, "crashed")
        /\ UNCHANGED comments
  /\ UNCHANGED <<now, refs, pulls, local, err, trace>>

ListFilesOf(h, fileSeqs) ==
  /\ pc[h] = "listFiles"
  /\ \/ /\ \E fs \in fileSeqs : event' = [event EXCEPT ![h].files = fs]
        /\ Goto(h, "cAnalyzing")
        /\ UNCHANGED err
     \/ /\ Goto(h, "outerCatch")
        /\ err' = [err EXCEPT ![h] = MsgNotFound]
        /\ UNCHANGED event
  /\ UNCHANGED <<now, refs, pulls, fileIdx, local, trace, comments>>

CAnalyzing(h) ==
  /\ pc[h] = "cAnalyzing"
  /\ \/ /\ Post(h, [type |-> "analyzing", n |-> Len(event[h].files)])
        /\ IF Len(event[h].files) = 0
             THEN Return(h, "done")
             ELSE Goto(h, "getContent") /\ UNCHANGED <<event, fileIdx>>
        /\ UNCHANGED err
     \/ /\ Goto(h, "outerCatch")
        /\ err' = [err EXCEPT ![h] = MsgNotFound]
        /\ UNCHANGED <<comments, event, fileIdx>>
  /\ UNCHANGED <<now, refs, pulls, local, trace>>

\* repos.getContent at headRef; a directory listing is skipped
GetContent(h) ==
  /\ pc[h] = "getContent"
  /\ local' = [local EXCEPT ![h] = NoLocal]
  /\ \/ /\ trace' = [trace EXCEPT ![h] = <<[call |-> "getContent", ok |-> TRUE]>>]
        /\ Goto(h, "upload")
        /\ UNCHANGED <<err, event, fileIdx>>
     \/ /\ trace' = [trace EXCEPT ![h] = <<[call |-> "getContent", ok |-> TRUE]>>]
        /\ FinishFile(h)
        /\ UNCHANGED err
     \/ /\ \E m \in OctokitMessages :
             /\ trace' = [trace EXCEPT ![h] = <<[call |-> "getContent", ok |-> FALSE]>>]
             /\ err' = [err EXCEPT ![h] = m]
        /\ Goto(h, "fileCatch")
        /\ UNCHANGED <<event, fileIdx>>
  /\ UNCHANGED <<now, refs, pulls, comments>>

\* generateUniqueFileName + uploadToS3
Upload(h) ==
  /\ pc[h] = "upload"
  /\ \/ /\ Goto(h, "invoke") /\ Logged(h, "upload", TRUE) /\ UNCHANGED err
        /\ local' = [local EXCEPT ![h].uploaded = UniqueFileName(FilePath(h))]
     \/ /\ \E m \in UploadMessages : Throw(h, "upload", m, "fileCatch")
        /\ UNCHANGED local
  /\ UNCHANGED <<now, refs, pulls, event, fileIdx, comments>>

\* documentationInvoker({file_id}); the branch name is derived, with the
\* clock as it is then, before the handler next suspends
InvokeSendsPath(h) ==
  /\ pc[h] = "invoke"
  /\ \/ /\ \E c \in Contents :
             local' = [local EXCEPT ![h].fileId = FilePath(h),
                                    ![h].documentedContent = c,
                                    ![h].branchName = BranchName(FilePath(h), now)]
        /\ Goto(h, "getRef")
        /\ Logged(h, "invoke", TRUE)
        /\ UNCHANGED err
     \/ /\ \E m \in InvokeMessages : Throw(h, "invoke", m, "fileCatch")
        /\ local' = [local EXCEPT ![h].fileId = FilePath(h)]
  /\ UNCHANGED <<now, refs, pulls, event, fileIdx, comments>>

\* documentationInvoker({file_id: uniqueFileNameForDocs}) settles
Invoke(h) ==
  /\ pc[h] = "invoke"
  /\ \/ /\ \E c \in Contents :
             local' = [local EXCEPT ![h].fileId = local[h].uploaded,
                                    ![h].documentedContent = c,
                                    ![h].branchName = BranchName(FilePath(h), now)]
        /\ Goto(h, "getRef")
        /\ Logged(h, "invoke", TRUE)
        /\ UNCHANGED err
     \/ /\ \E m \in InvokeMessages : Throw(h, "invoke", m, "fileCatch")
        /\ local' = [local EXCEPT ![h].fileId = local[h].uploaded]
  /\ UNCHANGED <<now, refs, pulls, event, fileIdx, comments>>

\* ---------------------------------------------------- the publish sequence
\* step 1: git.getRef(heads/baseBranch)
GetRef(h) ==
  /\ pc[h] = "getRef"
  /\ \/ /\ event[h].baseRef \in DOMAIN refs
        /\ local' = [local EXCEPT ![h].latestCommitSha = refs[event[h].baseRef]]
        /\ Goto(h, "deleteRef")
        /\ Logged(h, "getRef", TRUE)
        /\ UNCHANGED err
     \/ /\ \E m \in OctokitMessages : Throw(h, "getRef", m, "fileCatch")
        /\ UNCHANGED local
  /\ UNCHANGED <<now, refs, pulls, event, fileIdx, comments>>

\* the ref store after a branch is deleted; its open pull requests are closed
RefsWithout(branch) == [b \in DOMAIN refs \ {branch} |-> refs[b]]

\* DeleteRef, were the grace wait left out after a deletion
DeleteRefNoWait(h) ==
  /\ pc[h] = "deleteRef"
  /\ \/ /\ local[h].branchName \in DOMAIN refs
        /\ refs' = RefsWithout(local[h].branchName)
        /\ pulls' = {p \in pulls : p.head # local[h].branchName}
        /\ Goto(h, "createRef")
        /\ Logged(h, "deleteRef", TRUE)
     \/ /\ Goto(h, "createRef")
        /\ Logged(h, "deleteRef", FALSE)
        /\ UNCHANGED <<refs, pulls>>
  /\ UNCHANGED <<now, event, fileIdx, local, err, comments>>

\* DeleteRef, were the delete aimed at a ref other than targetBranch
DeleteRefKeepsBranch(h) ==
  /\ pc[h] = "deleteRef"
  /\ \/ /\ local[h].branchName \in DOMAIN refs
        /\ Goto(h, "wait")
        /\ Logged(h, "deleteRef", TRUE)
        /\ UNCHANGED <<refs, pulls>>
     \/ /\ Goto(h, "createRef")
        /\ Logged(h, "deleteRef", FALSE)
        /\ UNCHANGED <<refs, pulls>>
  /\ UNCHANGED <<now, event, fileIdx, local, err, comments>>

\* step 2: try { git.deleteRef(heads/branchName); ... } catch (e) { log }
DeleteRef(h) ==
  /\ pc[h] = "deleteRef"
  /\ \/ /\ local[h].branchName \in DOMAIN refs
        /\ refs' = RefsWithout(local[h].branchName)
        /\ pulls' = {p \in pulls : p.head # local[h].branchName}
        /\ Goto(h, "wait")
        /\ Logged(h, "deleteRef", TRUE)
     \/ /\ Goto(h, "createRef")
        /\ Logged(h, "deleteRef", FALSE)
        /\ UNCHANGED <<refs, pulls>>
  /\ UNCHANGED <<now, event, fileIdx, local, err, comments>>

\* await new Promise(resolve => setTimeout(resolve, 1000))
Wait(h) ==
  /\ pc[h] = "wait"
  /\ Goto(h, "createRef")
  /\ Logged(h, "wait", TRUE)
  /\ UNCHANGED <<now, refs, pulls, event, fileIdx, local, err, comments>>

\* CreateRef, were its catch to log the error without rethrowing it
CreateRefSwallows(h) ==
  /\ pc[h] = "createRef"
  /\ \/ /\ local[h].branchName \notin DOMAIN refs
        /\ refs' = [b \in DOMAIN refs \cup {local[h].branchName} |->
                      IF b = local[h].branchName THEN local[h].latestCommitSha ELSE refs[b]]
        /\ Goto(h, "createBlob")
        /\ Logged(h, "createRef", TRUE)
     \/ /\ Goto(h, "createBlob")
        /\ Logged(h, "createRef", FALSE)
        /\ UNCHANGED refs
  /\ UNCHANGED <<now, pulls, event, fileIdx, local, err, comments>>

\* step 3: try { git.createRef(refs/heads/branchName, latestCommitSha) }
\*         catch (createError) { throw createError }
CreateRef(h) ==
  /\ pc[h] = "createRef"
  /\ \/ /\ local[h].branchName \notin DOMAIN refs
        /\ refs' = [b \in DOMAIN refs \cup {local[h].branchName} |->
                      IF b = local[h].branchName THEN local[h].latestCommitSha ELSE refs[b]]
        /\ Goto(h, "createBlob")
        /\ Logged(h, "createRef", TRUE)
        /\ UNCHANGED err
     \/ /\ \E m \in (IF local[h].branchName \in DOMAIN refs
                       THEN {MsgRefExists} ELSE OctokitMessages) :
             Throw(h, "createRef", m, "fileCatch")
        /\ UNCHANGED refs
  /\ UNCHANGED <<now, pulls, event, fileIdx, local, comments>>

\* CreateBlob, were a rejected call not to stop the sequence
CreateBlobContinues(h) ==
  /\ pc[h] = "createBlob"
  /\ \/ /\ local' = [local EXCEPT ![h].blob = local[h].documentedContent]
        /\ Goto(h, "getCommit")
        /\ Logged(h, "createBlob", TRUE)
     \/ /\ Goto(h, "getCommit")
        /\ Logged(h, "createBlob", FALSE)
        /\ UNCHANGED local
  /\ UNCHANGED <<now, refs, pulls, event, fileIdx, err, comments>>

\* step 4: git.createBlob(documentedContent)
CreateBlob(h) ==
  /\ pc[h] = "createBlob"
  /\ \/ /\ local' = [local EXCEPT ![h].blob = local[h].documentedContent]
        /\ Goto(h, "getCommit")
        /\ Logged(h, "createBlob", TRUE)
        /\ UNCHANGED err
     \/ /\ \E m \in OctokitMessages : Throw(h, "createBlob", m, "fileCatch")
        /\ UNCHANGED local
  /\ UNCHANGED <<now, refs, pulls, event, fileIdx, comments>>

\* step 5: git.getCommit(latestCommitSha)
GetCommit(h) ==
  /\ pc[h] = "getCommit"
  /\ \/ /\ local' = [local EXCEPT ![h].baseCommit = local[h].latestCommitSha]
        /\ Goto(h, "createTree")
        /\ Logged(h, "getCommit", TRUE)
        /\ UNCHANGED err
     \/ /\ \E m \in OctokitMessages : Throw(h, "getCommit", m, "fileCatch")
        /\ UNCHANGED local
  /\ UNCHANGED <<now, refs, pulls, event, fileIdx, comments>>

\* OverlayTree, were base_tree left out of the createTree call
OverlayTreeNoBase(baseTree, path, blob) ==
  [p \in DOMAIN baseTree |-> IF p = path THEN blob ELSE NoBlob]

\* git.createTree({base_tree, tree: [{path, sha}]}) on the remote side
OverlayTree(baseTree, path, blob) == [baseTree EXCEPT ![path] = blob]

\* step 6: git.createTree(base_tree: baseCommit.tree.sha, [{filePath, blob.sha}])
CreateTree(h) ==
  /\ pc[h] = "createTree"
  /\ \/ /\ local' = [local EXCEPT ![h].newTree =
                       OverlayTree(local[h].baseCommit.tree, FilePath(h), local[h].blob)]
        /\ Goto(h, "createCommit")
        /\ Logged(h, "createTree", TRUE)
        /\ UNCHANGED err
     \/ /\ \E m \in OctokitMessages : Throw(h, "createTree", m, "fileCatch")
        /\ UNCHANGED local
  /\ UNCHANGED <<now, refs, pulls, event, fileIdx, comments>>

\* {message: `docs: add documentation for ${filePath}`, tree, parents: [latestCommitSha]}
NewCommit(tree, parent, filePath) ==
  [tree |-> tree, parents |-> <<parent>>,
   message |-> <<"docs: add documentation for ">> \o filePath]

\* step 7: git.createCommit
CreateCommit(h) ==
  /\ pc[h] = "createCommit"
  /\ \/ /\ local' = [local EXCEPT ![h].newCommit =
                       NewCommit(local[h].newTree, local[h].latestCommitSha, FilePath(h))]
        /\ Goto(h, "updateRef")
        /\ Logged(h, "createCommit", TRUE)
        /\ UNCHANGED err
     \/ /\ \E m \in OctokitMessages : Throw(h, "createCommit", m, "fileCatch")
        /\ UNCHANGED local
  /\ UNCHANGED <<now, refs, pulls, event, fileIdx, comments>>

\* UpdatedRef, were step 8 to move the pull request's own branch
UpdatedRefIsHead(h) == event[h].headRef

\* the ref written by step 8
UpdatedRef(h) == local[h].branchName

\* step 8: git.updateRef(heads/branchName, newCommit.sha, force: true)
UpdateRef(h) ==
  /\ pc[h] = "updateRef"
  /\ \/ /\ UpdatedRef(h) \in DOMAIN refs
        /\ refs' = [refs EXCEPT ![UpdatedRef(h)] = local[h].newCommit]
        /\ Goto(h, "pullsCreate")
        /\ Logged(h, "updateRef", TRUE)
        /\ UNCHANGED err
     \/ /\ \E m \in OctokitMessages : Throw(h, "updateRef", m, "fileCatch")
        /\ UNCHANGED refs
  /\ UNCHANGED <<now, pulls, event, fileIdx, local, comments>>

\* step 9: try { pulls.create(head: branchName, base: baseBranch); createComment(...) }
\* the remote side refuses a second open pull request for the same pair,
\* a missing head and a head with no commit ahead of the base
PullsCreate(h) ==
  /\ pc[h] = "pullsCreate"
  /\ \/ /\ local[h].branchName \in DOMAIN refs
        /\ event[h].baseRef \in DOMAIN refs
        /\ refs[local[h].branchName] # refs[event[h].baseRef]
        /\ [head |-> local[h].branchName, base |-> event[h].baseRef] \notin pulls
        /\ pulls' = pulls \cup {[head |-> local[h].branchName, base |-> event[h].baseRef]}
        /\ Goto(h, "cCreated")
        /\ Logged(h, "pullsCreate", TRUE)
     \/ /\ Goto(h, "cPartial")
        /\ Logged(h, "pullsCreate", FALSE)
        /\ UNCHANGED pulls
  /\ UNCHANGED <<now, refs, event, fileIdx, local, err, comments>>

\* still inside the try of step 9: the comment announcing the pull request
CCreated(h) ==
  /\ pc[h] = "cCreated"
  /\ \/ /\ Post(h, [type |-> "created", branch |-> local[h].branchName, file |-> FilePath(h)])
        /\ Logged(h, "createComment", TRUE)
        /\ FinishFile(h)
     \/ /\ Goto(h, "cPartial")
        /\ Logged(h, "createComment", FALSE)
        /\ UNCHANGED <<comments, event, fileIdx>>
  /\ UNCHANGED <<now, refs, pulls, local, err>>

\* CPartial, were the catch to rethrow after posting its comment
CPartialRethrows(h) ==
  /\ pc[h] = "cPartial"
  /\ \/ /\ Post(h, [type |-> "partial", branch |-> local[h].branchName, file |-> FilePath(h)])
        /\ Throw(h, "createComment", MsgNotFound, "fileCatch")
        /\ UNCHANGED <<event, fileIdx>>
     \/ /\ Throw(h, "createComment", MsgNotFound, "fileCatch")
        /\ UNCHANGED <<comments, event, fileIdx>>
  /\ UNCHANGED <<now, refs, pulls, local>>

\* catch (prError): the comment saying the pull request could not be created
CPartial(h) ==
  /\ pc[h] = "cPartial"
  /\ \/ /\ Post(h, [type |-> "partial", branch |-> local[h].branchName, file |-> FilePath(h)])
        /\ Logged(h, "createComment", TRUE)
        /\ FinishFile(h)
        /\ UNCHANGED err
     \/ /\ Throw(h, "createComment", MsgNotFound, "fileCatch")
        /\ UNCHANGED <<comments, event, fileIdx>>
  /\ UNCHANGED <<now, refs, pulls, local>>

FileCatchAborts(h) ==
  /\ pc[h] = "fileCatch"
  /\ \/ /\ Post(h, ErrorBody(FilePath(h), err[h]))
        /\ err' = [err EXCEPT ![h] = NoErr]
        /\ Return(h, "done")
     \/ /\ Goto(h, "outerCatch")
        /\ err' = [err EXCEPT ![h] = MsgNotFound]
        /\ UNCHANGED <<comments, event, fileIdx>>
  /\ UNCHANGED <<now, refs, pulls, local, trace>>

\* per-file catch (err): compose errorMessage and post it
FileCatch(h) ==
  /\ pc[h] = "fileCatch"
  /\ \/ /\ Post(h, ErrorBody(FilePath(h), err[h]))
        /\ err' = [err EXCEPT ![h] = NoErr]
        /\ FinishFile(h)
     \/ /\ Goto(h, "outerCatch")
        /\ err' = [err EXCEPT ![h] = MsgNotFound]
        /\ UNCHANGED <<comments, event, fileIdx>>
  /\ UNCHANGED <<now, refs, pulls, local, trace>>

\* outer catch (err): "Failed to list changed files for this pull request."
OuterCatch(h) ==
  /\ pc[h] = "outerCatch"
  /\ err' = [err EXCEPT ![h] = NoErr]
  /\ \/ Post(h, [type |-> "listFailed"]) /\ Return(h, "done")
     \/ Return(h, "crashed") /\ UNCHANGED comments
  /\ UNCHANGED <<now, refs, pulls, local, trace>>

ReceiveEvent(h) == ReceiveEventOf(h, Events)

ReceiveMainEvent(h) == ReceiveEventOf(h, MainEvents)

ListFiles(h) == ListFilesOf(h, {fs \in FileSeqs : Listed(fs)})

ListOneFile(h) == ListFilesOf(h, {<<p>> : p \in CollidingPaths})

Step(h) ==
  \/ Guard(h) \/ CProcessing(h) \/ CAnalyzing(h)
  \/ GetContent(h) \/ Upload(h) \/ Invoke(h)
  \/ GetRef(h) \/ DeleteRef(h) \/ Wait(h) \/ CreateRef(h)
  \/ CreateBlob(h) \/ GetCommit(h) \/ CreateTree(h) \/ CreateCommit(h)
  \/ UpdateRef(h) \/ PullsCreate(h) \/ CCreated(h) \/ CPartial(h)
  \/ FileCatch(h) \/ OuterCatch(h)

\* one merged pull request, any list of changed files
Next ==
  /\ \/ Tick
     \/ ReceiveEvent(1) \/ ListFiles(1) \/ Step(1)
  /\ UNCHANGED <<retryVars, batchVars, botVars, confVars>>

Spec == Init /\ [][Next]_allVars

\* two concurrently handled events of one changed file each
NextConc ==
  /\ \/ Tick
     \/ \E h \in Handlers : ReceiveMainEvent(h) \/ ListOneFile(h) \/ Step(h)
  /\ UNCHANGED <<retryVars, batchVars, botVars, confVars>>

SpecConc == Init /\ [][NextConc]_allVars

\* ------------------------------------------- pull_request.opened handler
\* obj[key] = value on a JavaScript object
Assign(obj, key, value) ==
  [k \in DOMAIN obj \cup {key} |-> IF k = key THEN value ELSE obj[k]]

\* context.payload.pull_request.body: null, empty or a text
PayloadBodies ==
  {[null |-> TRUE], [null |-> FALSE, text |-> <<>>], [null |-> FALSE, text |-> <<"d">>]}

UpdatedBodyWithoutOld(summaryResponse, body) == summaryResponse

\* `${summaryResponse}\n\n---\n\n${context.payload.pull_request.body || ''}`
UpdatedBody(summaryResponse, body) ==
  summaryResponse \o <<"\n\n---\n\n">>
  \o (IF body.null THEN <<>> ELSE IF body.text = <<>> THEN <<>> ELSE body.text)

\* end of one iteration of the loop over files; after the last file the
\* handler serialises `history` and calls the summary function with it
AfterFile(h) ==
  IF fileIdx[h] < Len(event[h].files)
    THEN /\ Goto(h, "oGetContent")
         /\ fileIdx' = [fileIdx EXCEPT ![h] = @ + 1]
         /\ UNCHANGED summaries
    ELSE /\ Goto(h, "oSummary")
         /\ summaries' = [summaries EXCEPT ![h] = [sent |-> history]]
         /\ UNCHANGED fileIdx

\* The handler of pull_request.opened, one disjunct per await.
OpenedHandler(h, fileSeqs) ==
  /\ \/ /\ pc[h] = "idle"
        /\ \E e \in Events :
             /\ ~e.merged /\ e.baseRef = Main
             /\ event' = [event EXCEPT ![h] = e]
        /\ IF \/ EndsWith(event'[h].headRef, DocumentedSuffix)
              \/ StartsWith(event'[h].headRef, DocsPrefix)
             THEN Goto(h, "done")
             ELSE Goto(h, "oAccessing")
        /\ UNCHANGED <<fileIdx, local, err, trace, comments, botVars>>
     \* createComment("Accessing feeds..."), outside the try
     \/ /\ pc[h] = "oAccessing"
        /\ \/ Post(h, [type |-> "accessing"]) /\ Goto(h, "oListFiles")
           \/ Goto(h, "crashed") /\ UNCHANGED comments
        /\ UNCHANGED <<event, fileIdx, local, err, trace, botVars>>
     \/ /\ pc[h] = "oListFiles"
        /\ \/ /\ \E fs \in fileSeqs : event' = [event EXCEPT ![h].files = fs]
              /\ Goto(h, "oAnalysing")
              /\ UNCHANGED <<err, trace>>
           \/ Throw(h, "listFiles", MsgNotFound, "oOuterCatch") /\ UNCHANGED event
        /\ UNCHANGED <<fileIdx, local, comments, botVars>>
     \* createComment("Analysing n file(s)..."); then `history = {}`
     \/ /\ pc[h] = "oAnalysing"
        /\ \/ /\ Post(h, [type |-> "analyzing", n |-> Len(event[h].files)])
              /\ history' = <<>>
              /\ IF Len(event[h].files) = 0
                   THEN /\ Goto(h, "oSummary")
                        /\ summaries' = [summaries EXCEPT ![h] = [sent |-> <<>>]]
                   ELSE Goto(h, "oGetContent") /\ UNCHANGED summaries
              /\ UNCHANGED <<err, trace>>
           \/ /\ Throw(h, "createComment", MsgNotFound, "oOuterCatch")
              /\ UNCHANGED <<comments, history, summaries>>
        /\ UNCHANGED <<event, fileIdx, local, prBody, own>>
     \* repos.getContent; a directory listing is skipped
     \/ /\ pc[h] = "oGetContent"
        /\ \/ /\ Goto(h, "oUpload") /\ Logged(h, "getContent", TRUE)
              /\ UNCHANGED <<fileIdx, err, summaries>>
           \/ /\ Logged(h, "getContent", TRUE) /\ AfterFile(h)
              /\ UNCHANGED err
           \/ /\ \E m \in OctokitMessages : Throw(h, "getContent", m, "oFileCatch")
              /\ UNCHANGED <<fileIdx, summaries>>
        /\ local' = [local EXCEPT ![h] = NoLocal]
        /\ UNCHANGED <<event, comments, history, prBody, own>>
     \* uploadToS3({fileName: uniqueFileName, fileContent})
     \/ /\ pc[h] = "oUpload"
        /\ \/ /\ Goto(h, "oInvoke") /\ Logged(h, "upload", TRUE) /\ UNCHANGED err
              /\ local' = [local EXCEPT ![h].uploaded = UniqueFileName(FilePath(h))]
           \/ /\ \E m \in UploadMessages : Throw(h, "upload", m, "oFileCatch")
              /\ UNCHANGED local
        /\ UNCHANGED <<event, fileIdx, comments, botVars>>
     \* fileAnalysisInvoker({file_id}); history[filePath] = result
     \/ /\ pc[h] = "oInvoke"
        /\ \/ /\ \E result \in {"r1", "r2"} :
                   /\ history' = Assign(history, FilePath(h), result)
                   /\ own' = [own EXCEPT ![h] = Assign(@, FilePath(h), result)]
              /\ Goto(h, "oComment") /\ Logged(h, "invoke", TRUE)
              /\ UNCHANGED err
           \/ /\ \E m \in InvokeMessages : Throw(h, "invoke", m, "oFileCatch")
              /\ UNCHANGED <<history, own>>
        /\ local' = [local EXCEPT ![h].fileId = local[h].uploaded]
        /\ UNCHANGED <<event, fileIdx, comments, summaries, prBody>>
     \* createComment(filePath + result)
     \/ /\ pc[h] = "oComment"
        /\ \/ /\ Post(h, [type |-> "analysis", file |-> FilePath(h)])
              /\ Logged(h, "createComment", TRUE)
              /\ AfterFile(h)
              /\ UNCHANGED err
           \/ /\ Throw(h, "createComment", MsgNotFound, "oFileCatch")
              /\ UNCHANGED <<comments, fileIdx, summaries>>
        /\ UNCHANGED <<event, local, history, prBody, own>>
     \* per-file catch: "Emmm, it seems that I struggled to get the content"
     \/ /\ pc[h] = "oFileCatch"
        /\ \/ /\ Post(h, [type |-> "failed", file |-> FilePath(h)])
              /\ err' = [err EXCEPT ![h] = NoErr]
              /\ AfterFile(h)
              /\ UNCHANGED trace
           \/ /\ Throw(h, "createComment", MsgNotFound, "oOuterCatch")
              /\ UNCHANGED <<comments, fileIdx, summaries>>
        /\ UNCHANGED <<event, local, history, prBody, own>>
     \* summaryInvoker({summaries}) settles
     \/ /\ pc[h] = "oSummary"
        /\ \/ /\ \E summaryResponse \in {<<"s1">>, <<"s2">>} :
                   summaries' = [summaries EXCEPT ![h] =
                                   [sent |-> @.sent, response |-> summaryResponse]]
              /\ Goto(h, "oUpdate") /\ Logged(h, "summary", TRUE) /\ UNCHANGED err
           \/ /\ \E m \in InvokeMessages : Throw(h, "summary", m, "oOuterCatch")
              /\ UNCHANGED summaries
        /\ UNCHANGED <<event, fileIdx, local, comments, history, prBody, own>>
     \* pulls.update({body: summaryResponse + separator + old body}); the body
     \* carried by the event is read here for the first time
     \/ /\ pc[h] = "oUpdate"
        /\ \/ /\ \E body \in PayloadBodies :
                   prBody' = [prBody EXCEPT ![h] =
                                [old |-> body,
                                 body |-> UpdatedBody(summaries[h].response, body)]]
              /\ Goto(h, "done") /\ Logged(h, "pullsUpdate", TRUE)
              /\ UNCHANGED err
           \/ /\ Throw(h, "pullsUpdate", MsgNotFound, "oOuterCatch")
              /\ UNCHANGED prBody
        /\ UNCHANGED <<event, fileIdx, local, comments, history, summaries, own>>
     \* outer catch: "That's weird, I failed to list changed files"
     \/ /\ pc[h] = "oOuterCatch"
        /\ err' = [err EXCEPT ![h] = NoErr]
        /\ \/ Post(h, [type |-> "listFailed"]) /\ Goto(h, "done")
           \/ Goto(h, "crashed") /\ UNCHANGED comments
        /\ UNCHANGED <<event, fileIdx, local, trace, botVars>>
  /\ UNCHANGED <<now, refs, pulls>>

\* two concurrently handled pull_request.opened events of one file each
NextOpened ==
  /\ \E h \in Handlers : OpenedHandler(h, {<<PathAB>>, <<PathCD>>})
  /\ UNCHANGED <<retryVars, batchVars, confVars>>

SpecOpened == Init /\ [][NextOpened]_allVars

\* ------------------------------------------------ the remote invocation
\* What axios.post does with one request: it resolves with a 2xx response or
\* rejects with an error object carrying code, response and request.
NoData == "undefined"

NoBody == "undefined"

NoResponse == [status |-> 0, statusText |-> <<>>, data |-> NoBody]

StatusText(status) ==
  CASE status = 400 -> <<"Bad", "Request">>
    [] status = 401 -> <<"Unauthorized">>
    [] status = 403 -> <<"Forbidden">>
    [] status = 404 -> <<"Not", "Found">>
    [] status = 500 -> <<"Internal", "Server", "Error">>
    [] status = 503 -> <<"Service", "Unavailable">>

StatusWord(status) ==
  CASE status = 400 -> "400"
    [] status = 401 -> "401"
    [] status = 403 -> "403"
    [] status = 404 -> "404"
    [] status = 500 -> "500"
    [] status = 503 -> "503"

RawOk(d) ==
  [ok |-> TRUE, data |-> d, code |-> "", response |-> NoResponse,
   request |-> TRUE, message |-> <<>>]

RawStatus(status, body) ==
  [ok |-> FALSE, data |-> NoData, code |-> "ERR_BAD_RESPONSE",
   response |-> [status |-> status, statusText |-> StatusText(status),
                 data |-> body],
   request |-> TRUE,
   message |-> <<"Request", "failed", "with", "status", "code",
                 StatusWord(status)>>]

RawNoStatusText(status) ==
  [RawStatus(status, NoBody) EXCEPT !.response.statusText = <<>>]

RawTimeout ==
  [ok |-> FALSE, data |-> NoData, code |-> "ECONNABORTED",
   response |-> NoResponse, request |-> TRUE,
   message |-> <<"timeout", "exceeded">>]

\* the connection is aborted while a response has already been attached
RawAbortedWithResponse ==
  [RawStatus(500, NoBody) EXCEPT !.code = "ECONNABORTED"]

RawUnreachable ==
  [ok |-> FALSE, data |-> NoData, code |-> "ECONNREFUSED",
   response |-> NoResponse, request |-> TRUE,
   message |-> <<"connect", "ECONNREFUSED">>]

RawSetup ==
  [ok |-> FALSE, data |-> NoData, code |-> "", response |-> NoResponse,
   request |-> FALSE, message |-> <<"Invalid", "URL">>]

HasResponse(raw) == raw.response # NoResponse

\* String.prototype.includes on messages: the phrase occurs as a run of words
IncludesPhrase(msg, phrase) ==
  \E i \in 1..(Len(msg) - Len(phrase) + 1) :
    SubSeq(msg, i, i + Len(phrase) - 1) = phrase

Resolved(d) == [ok |-> TRUE, value |-> d, message |-> <<>>]

Rejected(msg) == [ok |-> FALSE, value |-> NoData, message |-> msg]

EndpointDocs == <<"/docs/generate">>

NoTarget == <<>>

\* maskUrl(buildUrl(endpoint)): the masked host followed by the path
MaskedUrl(endpoint) == <<"https://abcdefgh***com">> \o endpoint

MsgEndpointRequired == <<"API", "Gateway", "endpoint", "path", "is", "required">>

MsgUrlRequired == <<"Lambda", "function", "URL", "not", "provided">>

EndpointErrorResponseFirst(endpoint, raw) ==
  IF raw.response.status >= 500
    THEN <<"API", "Gateway", "server", "error", "(",
           StatusWord(raw.response.status), ")", ":">>
         \o raw.response.statusText
  ELSE IF raw.code = "ECONNABORTED" THEN MsgGatewayTimeout
  ELSE IF HasResponse(raw)
    THEN <<"API", "Gateway", "error", "(",
           StatusWord(raw.response.status), ")", ":">>
         \o raw.response.statusText
  ELSE <<"Network", "error", ":", "Unable", "to", "reach", "API",
         "Gateway", "at">> \o MaskedUrl(endpoint)

\* ApiGatewayService.invokeEndpoint, the catch block: the message of the new
\* Error thrown for a rejected request
EndpointError(endpoint, raw) ==
  IF raw.code = "ECONNABORTED" THEN MsgGatewayTimeout
  ELSE IF raw.response.status = 401
    THEN <<"API", "Gateway", "authentication", "failed", ":",
           "Invalid", "or", "missing", "x-api-key">>
  ELSE IF raw.response.status = 403
    THEN <<"API", "Gateway", "access", "forbidden", ":",
           "Check", "API", "key", "permissions">>
  ELSE IF raw.response.status = 404
    THEN <<"API", "Gateway", "endpoint", "not", "found", ":">> \o endpoint
  ELSE IF raw.response.status >= 500
    THEN <<"API", "Gateway", "server", "error", "(",
           StatusWord(raw.response.status), ")", ":">>
         \o raw.response.statusText
  ELSE IF HasResponse(raw)
    THEN <<"API", "Gateway", "error", "(",
           StatusWord(raw.response.status), ")", ":">>
         \o (IF raw.response.statusText # <<>> THEN raw.response.statusText
             ELSE raw.message)
  ELSE IF raw.request
    THEN <<"Network", "error", ":", "Unable", "to", "reach", "API",
           "Gateway", "at">> \o MaskedUrl(endpoint)
  ELSE <<"Request", "setup", "error", ":">> \o raw.message

\* UrlLambdaService.invokeByUrl, the catch block
UrlError(raw) ==
  IF raw.code = "ECONNABORTED" THEN MsgLambdaTimeout
  ELSE IF HasResponse(raw)
    THEN <<"Lambda", "function", "returned",
           StatusWord(raw.response.status), ":">>
         \o raw.response.statusText
  ELSE IF raw.request
    THEN <<"Network", "error", ":", "Unable", "to", "reach", "Lambda",
           "function">>
  ELSE <<"Request", "setup", "error", ":">> \o raw.message

\* The settled promise of one invocation; raw is what axios.post does with the
\* request.  A missing endpoint or URL is rejected before any request is made.
InvokeEndpoint(endpoint, raw) ==
  IF endpoint = NoTarget THEN Rejected(MsgEndpointRequired)
  ELSE IF raw.ok THEN Resolved(raw.data)
  ELSE Rejected(EndpointError(endpoint, raw))

InvokeByUrl(url, raw) ==
  IF url = NoTarget THEN Rejected(MsgUrlRequired)
  ELSE IF raw.ok THEN Resolved(raw.data)
  ELSE Rejected(UrlError(raw))

ServiceKinds == {"gateway", "url"}

InvokeOf(kind, target, raw) ==
  IF kind = "gateway" THEN InvokeEndpoint(target, raw)
  ELSE InvokeByUrl(target, raw)

SendsAlways(target) == TRUE

\* a request goes on the wire unless the target is missing
Sends(target) == target # NoTarget

\* ------------------------------------------------- the comment handlers
Trigger == <<"!", "s", "f">>

\* comment bodies, as characters
Bodies ==
  {<<"!", "s", "f", " ", "x">>, <<"a", " ", "!", "s", "f">>,
   <<"!", "s">>, <<"s", "f", "!">>}

\* a call of the handler with its argument and, if it resolved, its result
Called(h, call, ok, arg, result) ==
  trace' = [trace EXCEPT ![h] =
              Append(@, [call |-> call, ok |-> ok, arg |-> arg,
                         result |-> result])]

DiscussionCommentTrimmed(h) ==
  /\ \/ /\ pc[h] = "idle"
        /\ \E b \in Bodies :
             /\ event' = [event EXCEPT ![h] = [kind |-> "discussion", body |-> b]]
             /\ IF IncludesPhrase(b, Trigger)
                  THEN Goto(h, "issueCreation")
                  ELSE Goto(h, "done")
        /\ UNCHANGED trace
     \/ /\ pc[h] = "issueCreation"
        /\ \/ /\ \E issueData \in {"i1", "i2"} :
                   Called(h, "issueCreation", TRUE, Tail(event[h].body), issueData)
              /\ Goto(h, "issuesCreate")
           \/ /\ Called(h, "issueCreation", FALSE, Tail(event[h].body), NoData)
              /\ Goto(h, "crashed")
        /\ UNCHANGED event
     \/ /\ pc[h] = "issuesCreate"
        /\ LET issueData == trace[h][Len(trace[h])].result IN
             \/ /\ Called(h, "issuesCreate", TRUE, issueData, NoData)
                /\ Goto(h, "done")
             \/ /\ Called(h, "issuesCreate", FALSE, issueData, NoData)
                /\ Goto(h, "crashed")
        /\ UNCHANGED event
  /\ UNCHANGED <<now, refs, pulls, fileIdx, local, err, comments, botVars>>

\* The handler of discussion_comment.created; it has no try block, so a
\* rejected call rejects the handler.
DiscussionComment(h) ==
  /\ \/ /\ pc[h] = "idle"
        /\ \E b \in Bodies :
             /\ event' = [event EXCEPT ![h] = [kind |-> "discussion", body |-> b]]
             /\ IF IncludesPhrase(b, Trigger)
                  THEN Goto(h, "issueCreation")
                  ELSE Goto(h, "done")
        /\ UNCHANGED trace
     \* issueCreationInvoker({content: commentBody}) settles
     \/ /\ pc[h] = "issueCreation"
        /\ \/ /\ \E issueData \in {"i1", "i2"} :
                   Called(h, "issueCreation", TRUE, event[h].body, issueData)
              /\ Goto(h, "issuesCreate")
           \/ /\ Called(h, "issueCreation", FALSE, event[h].body, NoData)
              /\ Goto(h, "crashed")
        /\ UNCHANGED event
     \* issues.create({title: issueData.title, body: issueData.body})
     \/ /\ pc[h] = "issuesCreate"
        /\ LET issueData == trace[h][Len(trace[h])].result IN
             \/ /\ Called(h, "issuesCreate", TRUE, issueData, NoData)
                /\ Goto(h, "done")
             \/ /\ Called(h, "issuesCreate", FALSE, issueData, NoData)
                /\ Goto(h, "crashed")
        /\ UNCHANGED event
  /\ UNCHANGED <<now, refs, pulls, fileIdx, local, err, comments, botVars>>

IssueCommentReactsFirst(h) ==
  /\ \/ /\ pc[h] = "idle"
        /\ \E b \in Bodies, issueContent \in {<<>>, <<"t">>} :
             /\ event' = [event EXCEPT ![h] =
                            [kind |-> "issue", body |-> b, issue |-> issueContent]]
             /\ IF IncludesPhrase(b, Trigger)
                  THEN Goto(h, "issueUpdate")
                  ELSE Goto(h, "done")
        /\ UNCHANGED trace
     \/ /\ pc[h] = "issueUpdate"
        /\ \/ /\ \E issueUpdateData \in {"i1", "i2"} :
                   Called(h, "issueUpdate", TRUE,
                          [issue_content |-> event[h].issue,
                           issue_comment |-> event[h].body], issueUpdateData)
              /\ Goto(h, "reaction")
           \/ /\ Called(h, "issueUpdate", FALSE,
                        [issue_content |-> event[h].issue,
                         issue_comment |-> event[h].body], NoData)
              /\ Goto(h, "crashed")
        /\ UNCHANGED event
     \/ /\ pc[h] = "issuesUpdate"
        /\ LET issueUpdateData == trace[h][1].result IN
             \/ /\ Called(h, "issuesUpdate", TRUE, issueUpdateData, NoData)
                /\ Goto(h, "done")
             \/ /\ Called(h, "issuesUpdate", FALSE, issueUpdateData, NoData)
                /\ Goto(h, "crashed")
        /\ UNCHANGED event
     \/ /\ pc[h] = "reaction"
        /\ \/ Called(h, "reaction", TRUE, "eyes", NoData) /\ Goto(h, "issuesUpdate")
           \/ Called(h, "reaction", FALSE, "eyes", NoData) /\ Goto(h, "crashed")
        /\ UNCHANGED event
  /\ UNCHANGED <<now, refs, pulls, fileIdx, local, err, comments, botVars>>

\* The handler of issue_comment.created, without try block as well.
IssueComment(h) ==
  /\ \/ /\ pc[h] = "idle"
        /\ \E b \in Bodies, issueContent \in {<<>>, <<"t">>} :
             /\ event' = [event EXCEPT ![h] =
                            [kind |-> "issue", body |-> b, issue |-> issueContent]]
             /\ IF IncludesPhrase(b, Trigger)
                  THEN Goto(h, "issueUpdate")
                  ELSE Goto(h, "done")
        /\ UNCHANGED trace
     \* issueUpdateInvoker({issue_content, issue_comment}) settles
     \/ /\ pc[h] = "issueUpdate"
        /\ \/ /\ \E issueUpdateData \in {"i1", "i2"} :
                   Called(h, "issueUpdate", TRUE,
                          [issue_content |-> event[h].issue,
                           issue_comment |-> event[h].body], issueUpdateData)
              /\ Goto(h, "issuesUpdate")
           \/ /\ Called(h, "issueUpdate", FALSE,
                        [issue_content |-> event[h].issue,
                         issue_comment |-> event[h].body], NoData)
              /\ Goto(h, "crashed")
        /\ UNCHANGED event
     \* issues.update({issue_number, title, body})
     \/ /\ pc[h] = "issuesUpdate"
        /\ LET issueUpdateData == trace[h][Len(trace[h])].result IN
             \/ /\ Called(h, "issuesUpdate", TRUE, issueUpdateData, NoData)
                /\ Goto(h, "reaction")
             \/ /\ Called(h, "issuesUpdate", FALSE, issueUpdateData, NoData)
                /\ Goto(h, "crashed")
        /\ UNCHANGED event
     \* reactions.createForIssueComment({content: "eyes"})
     \/ /\ pc[h] = "reaction"
        /\ \/ Called(h, "reaction", TRUE, "eyes", NoData) /\ Goto(h, "done")
           \/ Called(h, "reaction", FALSE, "eyes", NoData) /\ Goto(h, "crashed")
        /\ UNCHANGED event
  /\ UNCHANGED <<now, refs, pulls, fileIdx, local, err, comments, botVars>>

\* one event of any kind, handled by one handler
NextBot ==
  \/ Next
  \/ /\ \/ OpenedHandler(1, {fs \in FileSeqs : Listed(fs)})
        \/ DiscussionComment(1)
        \/ IssueComment(1)
     /\ UNCHANGED <<retryVars, batchVars, confVars>>

SpecBot == Init /\ [][NextBot]_allVars

\* ------------------------------------------------------ the retry handler
\* createRetryHandler(maxRetries, baseDelay)(operation) of ApiGatewayService
\* ("gateway"), UrlLambdaService ("url") and ErrorHandler ("errorHandler").
\* The wrapped operation is the service's invoke; script[n] is what axios does
\* with the request of attempt n.
RetryKinds == {"gateway", "url", "errorHandler"}

BaseDelays == {100, 1000}

OkData == {"r1", "r2"}

\* the reason phrase of a response is free text chosen by the server
RetryRaws ==
  {RawOk(d) : d \in OkData}
  \cup {RawStatus(s, NoBody) : s \in {401, 403, 404, 500}}
  \cup {[RawStatus(500, NoBody) EXCEPT
           !.response.statusText = <<"upstream", "not", "found">>]}
  \cup {RawTimeout, RawUnreachable}

\* the operation is not called again once it has succeeded
Scripts(maxRetries) ==
  {s \in UNION {[1..n -> RetryRaws] : n \in 1..maxRetries} :
     /\ \A i \in 1..(Len(s) - 1) : ~s[i].ok
     /\ s[Len(s)].ok \/ Len(s) = maxRetries}

UrlDocs == <<"https://fn.lambda-url.on.aws/">>

\* the endpoint paths the gateway operation is created for
RetryEndpoints == {EndpointDocs, <<"/", "authentication", "/check">>}

Operation(kind, raw) ==
  IF kind = "gateway" THEN InvokeEndpoint(rcfg.endpoint, raw)
  ELSE InvokeByUrl(UrlDocs, raw)

RECURSIVE Pow2(_)
Pow2(n) == IF n = 0 THEN 1 ELSE 2 * Pow2(n - 1)

DelayDoubledEarly(baseDelay, n) == baseDelay * Pow2(n)

Delay(baseDelay, n) == baseDelay * Pow2(n - 1)

NonRetryableNever(kind, msg) == FALSE

\* the check that only ApiGatewayService.createRetryHandler makes
NonRetryable(kind, msg) ==
  /\ kind = "gateway"
  /\ \/ IncludesPhrase(msg, <<"authentication">>)
     \/ IncludesPhrase(msg, <<"forbidden">>)
     \/ IncludesPhrase(msg, <<"not", "found">>)

AttemptEntry(n) == [ev |-> "attempt", n |-> n, ms |-> 0]

DelayEntry(n, ms) == [ev |-> "delay", n |-> n, ms |-> ms]

\* The handler is called: the loop starts and calls the operation.
RetryStart ==
  /\ rpc = "idle"
  /\ \E kind \in RetryKinds, m \in 1..MaxRetries, d \in BaseDelays :
       \E s \in Scripts(m), e \in RetryEndpoints :
         /\ kind # "gateway" => e = EndpointDocs
         /\ rcfg' = [kind |-> kind, maxRetries |-> m, baseDelay |-> d,
                     script |-> s, endpoint |-> e]
  /\ attempt' = 1
  /\ rlog' = <<AttemptEntry(1)>>
  /\ rpc' = "operation"
  /\ UNCHANGED <<lastError, rout>>

\* `return await operation()` resumes with the value.
RetryReturn ==
  /\ rpc = "operation"
  /\ LET o == Operation(rcfg.kind, rcfg.script[attempt]) IN
       /\ o.ok
       /\ rout' = [ok |-> TRUE, value |-> o.value]
       /\ rpc' = "returned"
       /\ UNCHANGED <<rcfg, attempt, lastError, rlog>>

DelayBeforeNext ==
  Delay(rcfg.baseDelay, attempt)

RetryCatchWraps ==
  /\ rpc = "operation"
  /\ LET o == Operation(rcfg.kind, rcfg.script[attempt])
         error == [message |-> o.message, id |-> attempt]
         wrapped == [message |-> <<"Operation", "failed", ":">> \o o.message,
                     id |-> 0]
     IN
       /\ ~o.ok
       /\ lastError' = error
       /\ IF attempt = rcfg.maxRetries \/ NonRetryable(rcfg.kind, error.message)
            THEN /\ rout' = [ok |-> FALSE, value |-> wrapped]
                 /\ rpc' = "thrown"
                 /\ UNCHANGED rlog
            ELSE /\ rlog' = Append(rlog, DelayEntry(attempt, DelayBeforeNext))
                 /\ rpc' = "setTimeout"
                 /\ UNCHANGED rout
       /\ UNCHANGED <<rcfg, attempt>>

RetryCatchGivesUp ==
  /\ rpc = "operation"
  /\ LET o == Operation(rcfg.kind, rcfg.script[attempt])
         error == [message |-> o.message, id |-> attempt]
     IN
       /\ ~o.ok
       /\ lastError' = error
       /\ rout' = [ok |-> FALSE, value |-> error]
       /\ rpc' = "thrown"
       /\ UNCHANGED <<rcfg, attempt, rlog>>

\* `await operation()` throws: the catch block.
RetryCatch ==
  /\ rpc = "operation"
  /\ LET o == Operation(rcfg.kind, rcfg.script[attempt])
         error == [message |-> o.message, id |-> attempt]
     IN
       /\ ~o.ok
       /\ lastError' = error
       /\ IF attempt = rcfg.maxRetries \/ NonRetryable(rcfg.kind, error.message)
            THEN /\ rout' = [ok |-> FALSE, value |-> error]
                 /\ rpc' = "thrown"
                 /\ UNCHANGED rlog
            ELSE /\ rlog' = Append(rlog, DelayEntry(attempt, DelayBeforeNext))
                 /\ rpc' = "setTimeout"
                 /\ UNCHANGED rout
       /\ UNCHANGED <<rcfg, attempt>>

\* The timer fires: the loop goes round and calls the operation again.
RetryTimer ==
  /\ rpc = "setTimeout"
  /\ attempt' = attempt + 1
  /\ rlog' = Append(rlog, AttemptEntry(attempt + 1))
  /\ rpc' = "operation"
  /\ UNCHANGED <<rcfg, lastError, rout>>

NextRetry ==
  /\ \/ RetryStart
     \/ RetryReturn
     \/ RetryCatch
     \/ RetryTimer
  /\ UNCHANGED <<vars, batchVars, botVars, confVars>>

SpecRetry == Init /\ [][NextRetry]_allVars

\* the operation settles and timers fire
SpecRetryFair ==
  /\ SpecRetry
  /\ WF_retryVars(RetryReturn) /\ WF_retryVars(RetryCatch) /\ WF_retryVars(RetryTimer)

\* ================================================================ claims
PublishOrder == <<"getRef", "deleteRef", "createRef", "createBlob", "getCommit",
                  "createTree", "createCommit", "updateRef", "pullsCreate">>

IsPublishCall(e) == \E i \in 1..Len(PublishOrder) : PublishOrder[i] = e.call

PublishCalls(h) == SelectSeq(trace[h], IsPublishCall)

Has(t, call, ok) == \E i \in 1..Len(t) : t[i] = [call |-> call, ok |-> ok]

LastIs(t, call, ok) == Len(t) > 0 /\ t[Len(t)] = [call |-> call, ok |-> ok]

Running(h) == pc[h] \notin {"idle", "guard", "done", "crashed"}

\* the handler h takes a step out of the await `label`
Leaves(h, label) == pc[h] = label /\ pc'[h] # label

\* C1: when step 8 of a publish succeeds, targetBranch exists and points to a
\* new commit whose single parent is the base branch's commit C and whose tree
\* maps the file path to the blob of the generated content and every other
\* path to what C's tree maps it to.
C1_PublishedCommit ==
  [][\A h \in Handlers :
       (Leaves(h, "updateRef") /\ pc'[h] = "pullsCreate") =>
         LET b == local[h].branchName
             C == refs[event[h].baseRef]
         IN /\ b \in DOMAIN refs'
            /\ refs'[b] # C
            /\ refs'[b].parents = <<C>>
            /\ refs'[b].tree[FilePath(h)] = local[h].documentedContent
            /\ \A q \in Paths \ {FilePath(h)} : refs'[b].tree[q] = C.tree[q]]_vars

C1_Witness ==
  \E h \in Handlers :
    /\ pc[h] = "pullsCreate"
    /\ local[h].branchName \in DOMAIN refs
    /\ refs[local[h].branchName].parents = <<BaseCommit0>>
    /\ refs[local[h].branchName].tree[PathCD] \in Contents
    /\ refs[local[h].branchName].tree[PathAB] = SrcBlob

\* C2: the source-control calls of a publish are issued in the fixed order
\* getRef, deleteRef, createRef, createBlob, getCommit, createTree,
\* createCommit, updateRef, pulls.create, each after the previous one
\* completed, and a call follows only a call that succeeded (the delete step
\* counts as completed whether or not the ref existed).
C2_CallOrder ==
  \A h \in Handlers :
    LET s == PublishCalls(h)
    IN /\ Len(s) <= Len(PublishOrder)
       /\ \A i \in 1..Len(s) :
            /\ s[i].call = PublishOrder[i]
            /\ i < Len(s) => (s[i].ok \/ s[i].call = "deleteRef")

C2_Witness ==
  \E h \in Handlers :
    /\ Len(PublishCalls(h)) = Len(PublishOrder)
    /\ \A i \in 1..Len(PublishOrder) : PublishCalls(h)[i].ok

FailedBeforeStep8(h) ==
  /\ Len(trace[h]) > 0
  /\ ~trace[h][Len(trace[h])].ok
  /\ trace[h][Len(trace[h])].call \in
       {"getRef", "createRef", "createBlob", "getCommit", "createTree", "createCommit"}

\* C3: if a step of a publish before the final ref update fails, no branch
\* named targetBranch created by that publish remains in the repository.
C3_NoBranchLeftAfterFailure ==
  \A h \in Handlers :
    (FailedBeforeStep8(h) /\ Has(trace[h], "createRef", TRUE)) =>
      local[h].branchName \notin DOMAIN refs

\* C4: a failing createRef ends the publish of that file: it is attempted
\* once, no later source-control call is issued, the repository is left as it
\* was and the error reaches the per-file catch.
C4_CreateRefFailureIsFatal ==
  [][\A h \in Handlers :
       /\ \A i \in 1..Len(trace'[h]) :
            trace'[h][i].call = "createRef" =>
              /\ \A j \in 1..Len(trace'[h]) : trace'[h][j].call = "createRef" => j = i
              /\ ~trace'[h][i].ok => i = Len(trace'[h])
       /\ (Leaves(h, "createRef") /\ pc'[h] # "createBlob") =>
            /\ pc'[h] = "fileCatch"
            /\ err'[h] # NoErr
            /\ LastIs(trace'[h], "createRef", FALSE)
            /\ refs' = refs /\ pulls' = pulls]_vars

C4_Witness ==
  \E h \in Handlers :
    /\ LastIs(trace[h], "createRef", FALSE)
    /\ pc[h] = "done"
    /\ Len(comments[h]) > 0
    /\ comments[h][Len(comments[h])].type = "failed"

\* number of comments of one type that handler h's pull request received about a file
Count(cs, type, filePath) ==
  Cardinality({i \in 1..Len(cs) : /\ cs[i].type = type
                                  /\ cs[i].file = filePath})

OnlyPullsCreateFailed(h) ==
  LET s == PublishCalls(h)
  IN /\ Len(s) = Len(PublishOrder)
     /\ \A i \in 1..Len(s) : s[i].ok <=> (s[i].call \notin {"pullsCreate", "deleteRef"} \/
                                          (s[i].call = "deleteRef" /\ Has(trace[h], "wait", TRUE)))
     /\ ~Has(trace[h], "createComment", FALSE)

\* C5: when only pulls.create fails, the step that handles the failure posts
\* one comment saying the branch exists and the pull request does not, leaves
\* targetBranch at the new commit, and the pull request never holds both that
\* comment and a full-failure comment for the file.
C5_PartialSuccess ==
  [][\A h \in Handlers :
       /\ (Leaves(h, "cPartial") /\ OnlyPullsCreateFailed(h)
             /\ LastIs(trace'[h], "createComment", TRUE)) =>
            /\ refs' = refs
            /\ pulls' = pulls
            /\ refs'[local[h].branchName] = local[h].newCommit
            /\ comments'[h] = Append(comments[h],
                 [type |-> "partial", branch |-> local[h].branchName, file |-> FilePath(h)])
            /\ pc'[h] \in {"getContent", "done"}
       /\ \A p \in Paths :
            /\ Count(comments'[h], "partial", p) <= 1
            /\ Count(comments'[h], "partial", p) = 1 => Count(comments'[h], "failed", p) = 0]_vars

C5_Witness ==
  \E h \in Handlers :
    /\ pc[h] = "done"
    /\ OnlyPullsCreateFailed(h)
    /\ Count(comments[h], "partial", PathAB) = 1
    /\ refs[local[h].branchName] = local[h].newCommit

\* C6: a publish that finds targetBranch left by an earlier publish of the
\* same derived name deletes it and creates it again (creation is refused as
\* existing only if the delete call itself failed), and its step 8 leaves the
\* branch at its own commit: its content at its path, the base tree elsewhere.
C6_SecondPublishWins ==
  [][\A h \in Handlers :
       /\ (pc'[h] = "createRef" /\ local'[h].branchName \in DOMAIN refs') =>
            LastIs(trace'[h], "deleteRef", FALSE)
       /\ (Leaves(h, "updateRef") /\ pc'[h] = "pullsCreate"
             /\ Has(trace[h], "deleteRef", TRUE)) =>
            /\ refs'[local[h].branchName] = local[h].newCommit
            /\ local[h].newCommit.tree =
                 [q \in Paths |-> IF q = FilePath(h) THEN local[h].documentedContent
                                  ELSE refs[event[h].baseRef].tree[q]]]_vars

\* both runs went through to the comment announcing the pull request
C6_Witness ==
  \E h \in Handlers :
    /\ pc[h] = "done"
    /\ Count(comments[h], "created", PathAB) = 1
    /\ Count(comments[h], "created", PathA_B) = 1
    /\ \E i, j \in 1..Len(comments[h]) :
         /\ i < j
         /\ comments[h][i].type = "created" /\ comments[h][j].type = "created"
         /\ comments[h][i].branch = comments[h][j].branch
    /\ Has(trace[h], "deleteRef", TRUE)
    /\ refs[local[h].branchName] = local[h].newCommit
    /\ local[h].newCommit.tree[PathAB] = SrcBlob
    /\ local[h].newCommit.tree[PathA_B] \in Contents

\* C7: a delete that fails is swallowed and branch creation follows at once;
\* a delete that succeeds is followed by the grace wait and then by branch
\* creation; the wait happens in no other place.
C7_DeleteThenWait ==
  \A h \in Handlers :
    LET t == trace[h]
    IN /\ \A i \in 1..Len(t) :
            /\ t[i].call = "wait" => (i > 1 /\ t[i-1] = [call |-> "deleteRef", ok |-> TRUE])
            /\ t[i].call = "createRef" =>
                 (i > 1 /\ (t[i-1].call = "wait" \/ t[i-1] = [call |-> "deleteRef", ok |-> FALSE]))
            /\ (t[i].call = "deleteRef" /\ i < Len(t)) =>
                 t[i+1].call = (IF t[i].ok THEN "wait" ELSE "createRef")
       /\ LastIs(t, "deleteRef", FALSE) => (pc[h] = "createRef" /\ err[h] = NoErr)
       /\ LastIs(t, "deleteRef", TRUE) => (pc[h] = "wait" /\ local[h].branchName \notin DOMAIN refs)
       /\ LastIs(t, "wait", TRUE) => pc[h] = "createRef"

C7_Witness ==
  \E h \in Handlers : \E i \in 1..Len(trace[h]) :
    /\ i + 2 <= Len(trace[h])
    /\ trace[h][i] = [call |-> "deleteRef", ok |-> TRUE]
    /\ trace[h][i+1].call = "wait"
    /\ trace[h][i+2] = [call |-> "createRef", ok |-> TRUE]

RefChanged(b) ==
  \/ b \in DOMAIN refs /\ b \notin DOMAIN refs'
  \/ b \notin DOMAIN refs /\ b \in DOMAIN refs'
  \/ b \in DOMAIN refs /\ b \in DOMAIN refs' /\ refs'[b] # refs[b]

\* C8: every ref a step creates, deletes or moves is the targetBranch of the
\* publish taking the step, which is neither the head branch nor the base
\* branch of its pull request.
C8_OnlyTargetBranchWritten ==
  [][\A b \in DOMAIN refs \cup DOMAIN refs' :
       RefChanged(b) =>
         \E h \in Handlers :
           /\ pc[h] \in {"deleteRef", "createRef", "updateRef"}
           /\ pc'[h] # pc[h]
           /\ b = local[h].branchName
           /\ b # event[h].headRef
           /\ b # event[h].baseRef]_vars

C8_Witness ==
  \E h \in Handlers :
    /\ pc[h] = "pullsCreate"
    /\ event[h].baseRef = OldDocs
    /\ refs[local[h].branchName] = local[h].newCommit
    /\ refs[event[h].headRef] = BaseCommit0
    /\ refs[event[h].baseRef] = BaseCommit0

InPublish(h) ==
  pc[h] \in {"getRef", "deleteRef", "wait", "createRef", "createBlob", "getCommit",
             "createTree", "createCommit", "updateRef", "pullsCreate"}

\* C9: two publish operations running at the same time for the same file
\* path have different targetBranch names.
C9_DistinctBranchNames ==
  \A h1, h2 \in Handlers :
    (h1 # h2 /\ InPublish(h1) /\ InPublish(h2) /\ FilePath(h1) = FilePath(h2)) =>
      local[h1].branchName # local[h2].branchName

Reported(h) ==
  /\ pc[h] = "done"
  /\ FailedBeforeStep8(h)
  /\ Len(comments[h]) > 0
  /\ comments[h][Len(comments[h])].type = "failed"

\* C10: the reports of two publish failures at different stages differ.
C10_StageNamedInReport ==
  \A h1, h2 \in Handlers :
    (Reported(h1) /\ Reported(h2)
       /\ trace[h1][Len(trace[h1])].call # trace[h2][Len(trace[h2])].call) =>
      comments[h1][Len(comments[h1])] # comments[h2][Len(comments[h2])]

\* -------------------------------------------------------- the batch call
\* batchInvokeEndpoints(invocations) of ApiGatewayService ("gateway") and
\* batchInvokeUrls(invocations) of UrlLambdaService ("url").  raw is what
\* axios does with the request of the invocation.
BatchRaws ==
  {RawOk(d) : d \in OkData}
  \cup {RawStatus(401, "errorBody"), RawStatus(500, NoBody),
        RawNoStatusText(400), RawTimeout, RawAbortedWithResponse,
        RawUnreachable, RawSetup}

TargetOf(kind) == IF kind = "gateway" THEN EndpointDocs ELSE UrlDocs

Invocations(kind) ==
  {[target |-> TargetOf(kind), raw |-> raw] : raw \in BatchRaws}
  \cup {[target |-> NoTarget, raw |-> RawSetup]}

InvocationSeqs(kind) ==
  UNION {[1..n -> Invocations(kind)] : n \in 0..MaxBatch}

Pending == [state |-> "pending"]

Fulfilled(value) == [state |-> "fulfilled", value |-> value]

RejectedPromise(error) == [state |-> "rejected", value |-> error]

NoError == [message |-> <<>>]

\* new Error(message)
NewError(msg) == [message |-> msg]

\* the object a map callback returns; index counts from 0
SuccessRecord(i, result) ==
  [index |-> i - 1, success |-> TRUE, result |-> result]

FailureRecordOneBased(kind, i, error, target) ==
  [index |-> i, success |-> FALSE, error |-> error.message,
   endpoint |-> target]

FailureRecord(kind, i, error, target) ==
  IF kind = "gateway"
    THEN [index |-> i - 1, success |-> FALSE, error |-> error.message,
          endpoint |-> target]
    ELSE [index |-> i - 1, success |-> FALSE, error |-> error.message,
          url |-> IF target = NoTarget THEN <<"undefined">>
                  ELSE MaskedUrl(<<"/">>)]

\* Promise.all: the values in the order of the promises
PromiseAllInCompletionOrder(settled, order) ==
  [k \in 1..Len(order) |-> settled[order[k]].value]

PromiseAll(settled, order) ==
  [i \in 1..Len(settled) |-> settled[i].value]

RECURSIVE SentOf(_, _)
\* The records one call of invoke writes at info and error level: nothing
\* when the target is missing (the throw precedes the try block), else the
\* record of the request and then either the record of its completion, which
\* carries the duration, or the record of its failure, which does not.
InvokeLog(i, raw) ==
  <<[by |-> "invoke", level |-> "info", event |-> "invoking", i |-> i],
    IF raw.ok
      THEN [by |-> "invoke", level |-> "info", event |-> "completed", i |-> i,
            duration |-> "ms"]
      ELSE [by |-> "invoke", level |-> "error", event |-> "failed", i |-> i,
            error |-> raw.message, response |-> raw.response]>>

ExitLog(i, invocation) ==
  IF Sends(invocation.target) THEN <<InvokeLog(i, invocation.raw)[2]>> ELSE <<>>

SentOf(invocations, i) ==
  IF i > Len(invocations) THEN <<>>
  ELSE (IF Sends(invocations[i].target) THEN <<i>> ELSE <<>>)
       \o SentOf(invocations, i + 1)

\* The batch is called: map starts every callback, each of which runs up to
\* its await, so every request is made before anything settles.
BatchStart ==
  /\ bpc = "idle"
  /\ \E kind \in ServiceKinds : \E invocations \in InvocationSeqs(kind) :
       /\ bcfg' = [kind |-> kind, invocations |-> invocations]
       /\ bsent' = SentOf(invocations, 1)
       /\ blog' = <<[by |-> "batch", level |-> "info", event |-> "starting"]>>
                  \o [k \in 1..Len(SentOf(invocations, 1)) |->
                        LET i == SentOf(invocations, 1)[k]
                        IN InvokeLog(i, invocations[i].raw)[1]]
       /\ bsettled' = [i \in 1..Len(invocations) |-> Pending]
       /\ bcaught' = [i \in 1..Len(invocations) |-> NoError]
  /\ border' = <<>>
  /\ bpc' = "promiseAll"
  /\ UNCHANGED bout

BatchSettleNoCatch(i) ==
  /\ bpc = "promiseAll"
  /\ i \in 1..Len(bsettled)
  /\ bsettled[i] = Pending
  /\ LET invocation == bcfg.invocations[i]
         o == InvokeOf(bcfg.kind, invocation.target, invocation.raw)
     IN
       IF o.ok
         THEN /\ bsettled' = [bsettled EXCEPT ![i] =
                                Fulfilled(SuccessRecord(i, o.value))]
              /\ blog' = blog \o ExitLog(i, invocation)
              /\ UNCHANGED bcaught
         ELSE /\ bsettled' = [bsettled EXCEPT ![i] =
                                RejectedPromise(NewError(o.message))]
              /\ blog' = blog \o ExitLog(i, invocation)
              /\ UNCHANGED bcaught
  /\ border' = Append(border, i)
  /\ UNCHANGED <<bpc, bcfg, bsent, bout>>

\* The invocation i settles and its callback resumes: the try block returns
\* the success record, the catch block the failure record.
BatchSettle(i) ==
  /\ bpc = "promiseAll"
  /\ i \in 1..Len(bsettled)
  /\ bsettled[i] = Pending
  /\ LET invocation == bcfg.invocations[i]
         o == InvokeOf(bcfg.kind, invocation.target, invocation.raw)
     IN
       IF o.ok
         THEN /\ bsettled' = [bsettled EXCEPT ![i] =
                                Fulfilled(SuccessRecord(i, o.value))]
              /\ blog' = blog \o ExitLog(i, invocation)
              /\ UNCHANGED bcaught
         ELSE /\ bcaught' = [bcaught EXCEPT ![i] = NewError(o.message)]
              /\ bsettled' = [bsettled EXCEPT ![i] =
                                Fulfilled(FailureRecord(bcfg.kind, i,
                                                        NewError(o.message),
                                                        invocation.target))]
              /\ blog' = blog \o ExitLog(i, invocation)
                           \o <<[by |-> "batch", level |-> "error", event |-> "failed",
                                 i |-> i - 1, error |-> o.message]>>
  /\ border' = Append(border, i)
  /\ UNCHANGED <<bpc, bcfg, bsent, bout>>

\* Promise.all settles: rejected as soon as one promise is, fulfilled when all
\* are; the batch returns the array or throws.
BatchReturn ==
  /\ bpc = "promiseAll"
  /\ IF \E i \in 1..Len(bsettled) : bsettled[i].state = "rejected"
       THEN /\ bpc' = "thrown"
            /\ bout' = [ok |-> FALSE,
                        value |-> bsettled[CHOOSE i \in 1..Len(bsettled) :
                                    bsettled[i].state = "rejected"].value]
       ELSE /\ \A i \in 1..Len(bsettled) : bsettled[i].state = "fulfilled"
            /\ bpc' = "returned"
            /\ bout' = [ok |-> TRUE, value |-> PromiseAll(bsettled, border)]
  /\ blog' = IF bpc' = "returned"
               THEN Append(blog, [by |-> "batch", level |-> "info", event |-> "completed"])
               ELSE blog
  /\ UNCHANGED <<bcfg, bsent, bcaught, bsettled, border>>

NextBatch ==
  /\ \/ BatchStart
     \/ \E i \in 1..MaxBatch : BatchSettle(i)
     \/ BatchReturn
  /\ UNCHANGED <<vars, retryVars, botVars, confVars>>

SpecBatch == Init /\ [][NextBatch]_allVars

\* ------------------------------------------- configuration and startup
\* An environment variable that is not set reads as undefined, which is
\* falsy like the empty string; Unset stands for both.
Unset == ""

Functions == {"fileAnalysis", "summary", "documentation", "issueCreation", "issueUpdate"}

\* Loading index.js: lambdaConfig is constructed from the environment, the
\* service instance is constructed (the API Gateway constructor throws
\* without root or token) and the five invokers capture their addresses.
LoadModule ==
  /\ boot = "unloaded"
  /\ \E v \in {"gateway", "url"}, key, secret, token \in {Unset, "v"},
        root \in {Unset, "https://gw", "gw"}, endpoints \in [Functions -> {Unset, "e"}] :
       LET apiGateway == IF v = "gateway"
                           THEN [root |-> root, apiToken |-> token, endpoints |-> endpoints]
                           ELSE [root |-> Unset, apiToken |-> Unset, endpoints |-> endpoints]
       IN
       /\ variant' = v
       /\ config' = [awsAccessKeyId |-> key, awsSecretAccessKey |-> secret,
                     defaultTimeout |-> 30000, s3BucketName |-> "simpleflowdata",
                     apiGateway |-> apiGateway]
       /\ IF v = "gateway" /\ (root = Unset \/ token = Unset)
            THEN boot' = "loadFailed" /\ invokers' = <<>>
            ELSE /\ boot' = "loaded"
                 /\ invokers' = [root |-> apiGateway.root, apiToken |-> apiGateway.apiToken,
                                 timeout |-> IF v = "gateway" THEN 60000 ELSE 30000,
                                 address |-> endpoints]
  /\ UNCHANGED used

\* module.exports = (app) => {...}: lambdaConfig.validateConfig(), in the
\* API Gateway variant also serviceInstance.validateConfig(); then the
\* handlers are registered.
Startup ==
  /\ boot = "loaded"
  /\ LET requiredFunctions ==
           IF variant = "gateway" THEN Functions
           ELSE {"fileAnalysis", "summary", "documentation"}
         errors ==
           {k \in {"awsAccessKeyId", "awsSecretAccessKey"} : config[k] = Unset}
           \cup {k \in {"root", "apiToken"} :
                   variant = "gateway" /\ config.apiGateway[k] = Unset}
           \cup {f \in requiredFunctions : config.apiGateway.endpoints[f] = Unset}
         serviceErrors ==
           {k \in {"root", "apiToken"} : variant = "gateway" /\ invokers[k] = Unset}
           \cup {k \in {"root"} : variant = "gateway" /\ invokers.root = "gw"}
     IN boot' = IF errors = {} /\ serviceErrors = {} THEN "registered" ELSE "startFailed"
  /\ UNCHANGED <<variant, config, invokers, used>>

\* a handler calls one of the invokers; invoke throws before any request
\* when the address the invoker captured is falsy
InvokerCalled ==
  /\ boot = "registered"
  /\ \E f \in Functions :
       used' = [function |-> f, address |-> invokers.address[f],
                outcome |-> IF invokers.address[f] = Unset THEN "addressMissing" ELSE "sent"]
  /\ UNCHANGED <<variant, boot, config, invokers>>

\* the options objects: timeout absent (undefined), 0 or positive, headers
\* absent or an object
OptionSets ==
  {[k \in d |-> IF k = "timeout" THEN t ELSE h] :
     d \in SUBSET {"timeout", "headers"}, t \in {0, 5000}, h \in {"x", "text/plain"}}

\* the headers object an option set carries: one extra header or another
\* content type
HeadersOf(o) ==
  IF "headers" \notin DOMAIN o THEN <<>>
  ELSE IF o.headers = "x" THEN [name \in {"X-Trace"} |-> "x"]
  ELSE [name \in {"Content-Type"} |-> "text/plain"]

\* {...a, ...b}
Spread(a, b) ==
  [k \in DOMAIN a \cup DOMAIN b |-> IF k \in DOMAIN b THEN b[k] ELSE a[k]]

\* An invoker made by createEndpointInvoker / createUrlInvoker with
\* defaultOptions is called with options: the request configuration that
\* invokeEndpoint / invokeByUrl hands to axios.post.
InvokerCalledWithOptions ==
  /\ boot = "registered"
  /\ \E defaultOptions, options \in OptionSets :
       LET mergedOptions == Spread(defaultOptions, options)
           headers == IF variant = "gateway"
                        THEN [name \in {"Content-Type", "x-api-key"} |->
                                IF name = "x-api-key" THEN invokers.apiToken
                                ELSE "application/json"]
                        ELSE [name \in {"Content-Type"} |-> "application/json"]
       IN used' = [function |-> "other", address |-> "e", outcome |-> "sent",
                   defaultOptions |-> defaultOptions, options |-> options,
                   timeout |-> IF "timeout" \in DOMAIN mergedOptions
                                  /\ mergedOptions.timeout # 0
                                 THEN mergedOptions.timeout ELSE invokers.timeout,
                   headers |-> Spread(headers, HeadersOf(mergedOptions))]
  /\ UNCHANGED <<variant, boot, config, invokers>>

\* The text of a URL, as characters, from its parts: user name and
\* password, host name, port, path, query and fragment.
UrlOf(c) ==
  <<"h", "t", "t", "p", "s", ":", "/", "/">>
  \o (IF c.userinfo = <<>> THEN <<>> ELSE c.userinfo \o <<"@">>)
  \o c.host
  \o (IF c.port = <<>> THEN <<>> ELSE <<":">> \o c.port)
  \o c.path
  \o (IF c.query = <<>> THEN <<>> ELSE <<"?">> \o c.query)
  \o (IF c.fragment = <<>> THEN <<>> ELSE <<"#">> \o c.fragment)

MaskedHostWhole(host) == host

\* host.length > 10 ? host.substring(0, 8) + '***' + host.substring(host.length - 3) : host
MaskedHost(host) ==
  IF Len(host) > 10
    THEN SubSeq(host, 1, 8) \o <<"*", "*", "*">> \o SubSeq(host, Len(host) - 2, Len(host))
    ELSE host

\* maskUrl(url): `new URL(url)` splits the text into protocol, authority,
\* path, query and fragment, and the authority into user information, host
\* name and port; the result is protocol, masked host name and path.
MaskUrl(url) ==
  LET First(t, cs) ==
        IF \E i \in 1..Len(t) : t[i] \in cs
          THEN CHOOSE i \in 1..Len(t) : t[i] \in cs /\ \A j \in 1..(i - 1) : t[j] \notin cs
          ELSE Len(t) + 1
      Last(t, cs) ==
        IF \E i \in 1..Len(t) : t[i] \in cs
          THEN CHOOSE i \in 1..Len(t) : t[i] \in cs /\ \A j \in (i + 1)..Len(t) : t[j] \notin cs
          ELSE 0
      colon == First(url, {":"})
      protocol == SubSeq(url, 1, colon)
      afterProtocol == SubSeq(url, colon + 1, Len(url))
      valid == /\ colon > 1 /\ colon <= Len(url)
               /\ Len(afterProtocol) > 2
               /\ SubSeq(afterProtocol, 1, 2) = <<"/", "/">>
               /\ afterProtocol[3] \notin {"/", "?", "#", "@", ":"}
      rest == SubSeq(afterProtocol, 3, Len(afterProtocol))
      authority == SubSeq(rest, 1, First(rest, {"/", "?", "#"}) - 1)
      afterAuthority == SubSeq(rest, Len(authority) + 1, Len(rest))
      hostPort == SubSeq(authority, Last(authority, {"@"}) + 1, Len(authority))
      hostname == SubSeq(hostPort, 1, First(hostPort, {":"}) - 1)
      pathname == SubSeq(afterAuthority, 1, First(afterAuthority, {"?", "#"}) - 1)
  IN IF url = <<>> THEN <<"u", "n", "d", "e", "f", "i", "n", "e", "d">>
     ELSE IF ~valid \/ hostname = <<>> THEN <<"i", "n", "v", "a", "l", "i", "d", "-", "u", "r", "l">>
     ELSE protocol \o <<"/", "/">> \o MaskedHost(hostname)
          \o (IF pathname = <<>> THEN <<"/">> ELSE pathname)

\* invoke writes its entry record for a URL: the parts of the URL and what
\* the record holds of it
InvokeLogsUrl ==
  /\ boot = "registered"
  /\ \E c \in [userinfo : {<<>>, <<"U", ":", "P">>},
               host : {<<"f", "n", ".", "i", "o">>, <<"a", "b", "c", "d", "e", "f", "g", ".", "i", "o">>, <<"a", "b", "c", "d", "e", "f", "g", "h", ".", "i", "o">>, <<"a", "b", "c", "d", "e", "f", "g", "h", "i", "j", "k", "l", ".", "a", "w", "s">>},
               port : {<<>>, <<"8", "4", "4", "3">>},
               path : {<<>>, <<"/", "r", "u", "n">>},
               query : {<<>>, <<"K", "=", "V">>},
               fragment : {<<>>, <<"F">>}] :
       used' = [function |-> "other", address |-> UrlOf(c), outcome |-> "sent",
                parts |-> c, logged |-> MaskUrl(UrlOf(c))]
  /\ UNCHANGED <<variant, boot, config, invokers>>

\* setConfig(key, value) { this.config[key] = value }
SetConfig ==
  /\ boot = "registered"
  /\ \E key \in {"defaultTimeout", "s3BucketName", "apiGateway"} :
       \E value \in IF key = "defaultTimeout" THEN {1}
                     ELSE IF key = "s3BucketName" THEN {"other"}
                     ELSE {[root |-> "https://other", apiToken |-> "w",
                            endpoints |-> [f \in Functions |-> "o"]]} :
         config' = Assign(config, key, value)
  /\ UNCHANGED <<variant, boot, invokers, used>>

NextConfig ==
  /\ \/ LoadModule
     \/ Startup
     \/ InvokerCalled
     \/ InvokerCalledWithOptions
     \/ InvokeLogsUrl
     \/ SetConfig
  /\ UNCHANGED <<vars, retryVars, batchVars, botVars>>

SpecConfig == Init /\ [][NextConfig]_allVars

\* ------------------------------------------------- retry handler claims
Attempts(log) == Cardinality({i \in 1..Len(log) : log[i].ev = "attempt"})

Delays(log) == Cardinality({i \in 1..Len(log) : log[i].ev = "delay"})

RetryCalled == rpc # "idle"

\* a failure of the permanent class: authentication, forbidden, not found
PermanentRaw(raw) == ~raw.ok /\ raw.response.status \in {401, 403, 404}

RetryableRaw(raw) == ~raw.ok /\ ~PermanentRaw(raw)

\* the first F < maxRetries attempts fail retryably, attempt F + 1 succeeds
FailsThenSucceeds ==
  /\ RetryCalled
  /\ rcfg.script[Len(rcfg.script)].ok
  /\ \A i \in 1..(Len(rcfg.script) - 1) : RetryableRaw(rcfg.script[i])

ReturnedSuccess ==
  /\ FailsThenSucceeds
  /\ rpc = "returned"
  /\ rout = [ok |-> TRUE, value |-> rcfg.script[Len(rcfg.script)].data]
  /\ Attempts(rlog) = Len(rcfg.script)

\* C11: a retry handler with maxRetries >= 1 around an operation whose first
\* F < maxRetries attempts fail retryably and whose attempt F + 1 succeeds
\* eventually returns that attempt's value; the operation is invoked exactly
\* F + 1 times and never again after the success.
C11_RetryUntilSuccess ==
  /\ FailsThenSucceeds ~> ReturnedSuccess
  /\ [](FailsThenSucceeds => Attempts(rlog) <= Len(rcfg.script))
  /\ [][ReturnedSuccess => ReturnedSuccess']_allVars

C11_Witness ==
  /\ ReturnedSuccess
  /\ Len(rcfg.script) >= 2
  /\ Len(rcfg.script) < rcfg.maxRetries

RetryEnded == rpc \in {"returned", "thrown"}

\* every one of the maxRetries attempts fails, none before the last permanently
AllAttemptsFail ==
  /\ RetryCalled
  /\ Len(rcfg.script) = rcfg.maxRetries
  /\ ~rcfg.script[rcfg.maxRetries].ok
  /\ \A i \in 1..(rcfg.maxRetries - 1) : RetryableRaw(rcfg.script[i])

\* the error thrown by the attempt n of the operation
ErrorOfAttempt(n) ==
  [message |-> Operation(rcfg.kind, rcfg.script[n]).message, id |-> n]

\* C12: when all maxRetries attempts of the operation fail, the operation is
\* invoked exactly maxRetries times and the handler fails with the error of
\* the final attempt itself, unchanged.
C12_ExhaustedThrowsLastError ==
  AllAttemptsFail =>
    /\ Attempts(rlog) <= rcfg.maxRetries
    /\ rpc # "returned"
    /\ rpc = "thrown" =>
         /\ Attempts(rlog) = rcfg.maxRetries
         /\ rout = [ok |-> FALSE, value |-> ErrorOfAttempt(rcfg.maxRetries)]

C12_Witness ==
  /\ AllAttemptsFail
  /\ rpc = "thrown"
  /\ rcfg.maxRetries >= 2
  /\ rout.value.id = rcfg.maxRetries

\* the first attempt fails with 401, 403 or 404: it is the only attempt, its
\* error is what the handler throws, and no delay is waited
PermanentFailsOnce ==
  PermanentRaw(rcfg.script[1]) =>
    /\ Attempts(rlog) = 1
    /\ Delays(rlog) = 0
    /\ rpc \in {"operation", "thrown"}
    /\ rpc = "thrown" => rout = [ok |-> FALSE, value |-> ErrorOfAttempt(1)]

\* C13: ApiGatewayService.invokeEndpoint wrapped in
\* ApiGatewayService.createRetryHandler and failing with 401, 403 or 404 is
\* attempted exactly once for every maxRetries >= 1; the failure propagates
\* at once, without a backoff delay.
C13_GatewayPermanentOnce ==
  (RetryCalled /\ rcfg.kind = "gateway") => PermanentFailsOnce

C13_Witness ==
  /\ RetryCalled /\ rcfg.kind = "gateway"
  /\ PermanentRaw(rcfg.script[1])
  /\ rcfg.maxRetries = MaxRetries
  /\ Len(rcfg.script) > 1
  /\ rpc = "thrown"

\* C14: UrlLambdaService.invokeByUrl wrapped in
\* UrlLambdaService.createRetryHandler or ErrorHandler.createRetryHandler and
\* failing with 401, 403 or 404 is attempted exactly once regardless of
\* maxRetries.
C14_UrlPermanentOnce ==
  (RetryCalled /\ rcfg.kind \in {"url", "errorHandler"}) => PermanentFailsOnce

\* baseDelay before attempt 2, doubled before each later attempt
RECURSIVE BackoffBefore(_, _)
BackoffBefore(baseDelay, n) ==
  IF n = 2 THEN baseDelay ELSE 2 * BackoffBefore(baseDelay, n - 1)

\* C15: the delay waited before attempt N > 1 is baseDelay * 2^(N-2); there
\* is exactly one delay between two consecutive attempts, none before the
\* first attempt and none after the final failed attempt.
C15_BackoffDelays ==
  RetryCalled =>
    /\ \A i \in 1..Len(rlog) :
         IF i % 2 = 1
           THEN rlog[i] = AttemptEntry((i + 1) \div 2)
           ELSE rlog[i] = DelayEntry(i \div 2,
                                     BackoffBefore(rcfg.baseDelay, i \div 2 + 1))
    /\ RetryEnded => rlog[Len(rlog)].ev = "attempt"
    /\ rpc = "setTimeout" <=> rlog[Len(rlog)].ev = "delay"

C15_Witness ==
  /\ rpc = "thrown"
  /\ Attempts(rlog) = MaxRetries
  /\ Delays(rlog) = MaxRetries - 1
  /\ rlog[Len(rlog) - 1].ms = BackoffBefore(rcfg.baseDelay, MaxRetries)

\* -------------------------------------------------------- batch claims
BatchCalled == bpc # "idle"

BatchSize == Len(bcfg.invocations)

\* what the invocation i yields when it is invoked on its own
Alone(i) ==
  InvokeOf(bcfg.kind, bcfg.invocations[i].target, bcfg.invocations[i].raw)

FailingRequests == {i \in 1..BatchSize : ~Alone(i).ok}

RecordsOf(i) == {k \in 1..Len(bout.value) : bout.value[k].index = i - 1}

\* C16: a batch of N requests of which K fail returns N records: K with
\* success false, each carrying the index of its own request, and N - K with
\* success true, each carrying what its request returns when invoked alone.
C16_BatchRecords ==
  bpc = "returned" =>
    /\ Len(bout.value) = BatchSize
    /\ Cardinality({k \in 1..Len(bout.value) : ~bout.value[k].success})
         = Cardinality(FailingRequests)
    /\ Cardinality({k \in 1..Len(bout.value) : bout.value[k].success})
         = BatchSize - Cardinality(FailingRequests)
    /\ \A i \in 1..BatchSize :
         /\ Cardinality(RecordsOf(i)) = 1
         /\ \A k \in RecordsOf(i) :
              /\ bout.value[k].success = Alone(i).ok
              /\ Alone(i).ok => bout.value[k].result = Alone(i).value
              /\ ~Alone(i).ok => bout.value[k].error = Alone(i).message

C16_Witness ==
  /\ bpc = "returned"
  /\ BatchSize = MaxBatch
  /\ Cardinality(FailingRequests) = 1
  /\ \E i \in 1..BatchSize : Alone(i).ok /\ Alone(i).value = "r2"

\* C17: the records of the batch result are in the order of the requests,
\* for every order in which the requests complete.
C17_ResultInInputOrder ==
  bpc = "returned" =>
    /\ Len(bout.value) = BatchSize
    /\ \A i \in 1..BatchSize : bout.value[i].index = i - 1

C17_Witness ==
  /\ bpc = "returned"
  /\ BatchSize = MaxBatch
  /\ \A k \in 1..BatchSize : border[k] = BatchSize + 1 - k
  /\ bout.value[1].success /\ ~bout.value[BatchSize].success

\* all requests with a target, in the order of the invocations
RECURSIVE WithTarget(_)
WithTarget(n) ==
  IF n = 0 THEN <<>>
  ELSE WithTarget(n - 1)
       \o (IF bcfg.invocations[n].target # NoTarget THEN <<n>> ELSE <<>>)

\* C18: every request of a batch is issued exactly once, before the outcome
\* of any other request is known; a request that fails or times out neither
\* prevents nor cancels its siblings; the batch call itself never fails.
C18_IndependentRequests ==
  BatchCalled =>
    /\ bsent = WithTarget(BatchSize)
    /\ bpc # "thrown"
    /\ bpc = "promiseAll" =>
         \A j \in 1..BatchSize :
           bsettled[j] = Pending => ENABLED BatchSettle(j)
    /\ bpc = "returned" =>
         \A j \in 1..BatchSize : bsettled[j].state = "fulfilled"

C18_Witness ==
  /\ bpc = "promiseAll"
  /\ BatchSize = MaxBatch
  /\ bcfg.invocations[1].raw = RawTimeout
  /\ bsettled[1].state = "fulfilled" /\ ~bsettled[1].value.success
  /\ Len(bsent) = MaxBatch
  /\ bsettled[MaxBatch] = Pending

\* ------------------------------------------------------- invoke claims
\* the invocation i has settled with a failure of its HTTP request
HttpFailed(i) ==
  /\ bsettled[i] # Pending
  /\ bcfg.invocations[i].target # NoTarget
  /\ ~bcfg.invocations[i].raw.ok
  /\ bcfg.invocations[i].raw.request

\* the classes a failure message announces
ClassesOf(msg) ==
  {c \in {"Timeout", "NetworkError", "RemoteError"} :
     \/ c = "Timeout" /\ IncludesPhrase(msg, <<"timeout">>)
     \/ c = "NetworkError" /\ IncludesPhrase(msg, <<"Network", "error">>)
     \/ c = "RemoteError"
        /\ \/ IncludesPhrase(msg, <<"Lambda", "function", "returned">>)
           \/ IncludesPhrase(msg, <<"authentication", "failed">>)
           \/ IncludesPhrase(msg, <<"access", "forbidden">>)
           \/ IncludesPhrase(msg, <<"endpoint", "not", "found">>)
           \/ IncludesPhrase(msg, <<"server", "error">>)
           \/ IncludesPhrase(msg, <<"Gateway", "error">>)}

\* timeout first, then a response with a status, then an unanswered request
ClassOfRaw(raw) ==
  IF raw.code = "ECONNABORTED" THEN "Timeout"
  ELSE IF raw.response # NoResponse THEN "RemoteError"
  ELSE "NetworkError"

\* C19: invoke turns every HTTP failure into exactly one classified failure
\* and never lets the transport error through: a timeout gives Timeout, a
\* request without response NetworkError, a non-2xx response RemoteError;
\* the timeout is recognised first, then the response, then the request.
C19_ClassifiedFailure ==
  BatchCalled =>
    \A i \in 1..BatchSize :
      HttpFailed(i) =>
        /\ DOMAIN bcaught[i] = {"message"}
        /\ ClassesOf(bcaught[i].message)
             = {ClassOfRaw(bcfg.invocations[i].raw)}

C19_Witness ==
  /\ BatchCalled
  /\ \E i \in 1..BatchSize :
       /\ HttpFailed(i)
       /\ bcfg.kind = "gateway"
       /\ bcfg.invocations[i].raw = RawAbortedWithResponse
       /\ ClassesOf(bcaught[i].message) = {"Timeout"}

\* the request of the invocation i was answered with a non-2xx status
StatusFailed(i) ==
  /\ HttpFailed(i)
  /\ HasResponse(bcfg.invocations[i].raw)
  /\ bcfg.invocations[i].raw.code # "ECONNABORTED"

\* C20: when the endpoint answers with a non-2xx status, the failure
\* delivered to the caller carries the status code and, if the response has
\* one, the structured error body.
C20_StatusAndBodyCarried ==
  BatchCalled =>
    \A i \in 1..BatchSize :
      StatusFailed(i) =>
        LET response == bcfg.invocations[i].raw.response IN
          /\ \/ IncludesPhrase(bcaught[i].message,
                                <<StatusWord(response.status)>>)
             \/ /\ "status" \in DOMAIN bcaught[i]
                /\ bcaught[i].status = response.status
          /\ response.data # NoBody =>
               /\ "data" \in DOMAIN bcaught[i]
               /\ bcaught[i].data = response.data

\* the invocation i has no endpoint path or URL
Unaddressed(i) == bcfg.invocations[i].target = NoTarget

InSeq(x, seq) == \E k \in 1..Len(seq) : seq[k] = x

\* C21: invoking an endpoint without address (empty or undefined endpoint
\* path or URL) fails with a configuration error, and no HTTP request is
\* sent for it.
C21_MissingAddressIsConfigError ==
  BatchCalled =>
    \A i \in 1..BatchSize :
      Unaddressed(i) =>
        /\ ~InSeq(i, bsent)
        /\ bsettled[i] # Pending =>
             /\ ~bsettled[i].value.success
             /\ bcaught[i].message
                  = (IF bcfg.kind = "gateway" THEN MsgEndpointRequired
                     ELSE MsgUrlRequired)
             /\ ClassesOf(bcaught[i].message) = {}

C21_Witness ==
  /\ BatchCalled
  /\ BatchSize = MaxBatch
  /\ Unaddressed(1) /\ bsettled[1] # Pending
  /\ ~Unaddressed(MaxBatch) /\ InSeq(MaxBatch, bsent)

\* ----------------------------------------------------- handler claims
\* the handler h has sent its summaries payload to the summary function
SummarySent(h) == pc[h] \in {"oSummary", "oUpdate"}

\* C25: no mutable state is shared between events: for every interleaving
\* of two concurrently handled pull_request.opened events, the summaries
\* payload of an event holds the analysis results of its own files only,
\* and all of them.
C25_SummariesOfOwnFiles ==
  \A h \in Handlers : SummarySent(h) => summaries[h].sent = own[h]

\* the awaits of one file's processing whose rejection reaches the per-file
\* catch, in the merged and in the opened handler
FileSteps ==
  {"getContent", "upload", "invoke", "getRef", "createRef", "createBlob",
   "getCommit", "createTree", "createCommit", "updateRef", "cCreated",
   "cPartial", "oGetContent", "oUpload", "oInvoke", "oComment"}

FileCatches == {"fileCatch", "oFileCatch"}

\* a step of h in which a call of the current file's processing rejects
FileStepFails(h) ==
  pc[h] \in FileSteps /\ err[h] = NoErr /\ err'[h] # NoErr

\* a step of h in which the per-file catch posts its comment
CatchPosts(h) ==
  pc[h] \in FileCatches /\ comments'[h] # comments[h]

\* C22: in the opened and merged handlers a failure at any step of one
\* file's processing is caught at that file, a failure comment for the file
\* is posted, and the handler goes on with the next file exactly as after a
\* file that succeeded.
C22_PerFileIsolation ==
  [][\A h \in Handlers :
       /\ FileStepFails(h) =>
            /\ pc'[h] \in FileCatches
            /\ fileIdx'[h] = fileIdx[h] /\ event'[h] = event[h]
            /\ comments'[h] = comments[h]
       /\ CatchPosts(h) =>
            /\ Len(comments'[h]) = Len(comments[h]) + 1
            /\ comments'[h][Len(comments'[h])].type = "failed"
            /\ comments'[h][Len(comments'[h])].file = FilePath(h)
            /\ IF fileIdx[h] < Len(event[h].files)
                 THEN /\ pc'[h] \in {"getContent", "oGetContent"}
                      /\ fileIdx'[h] = fileIdx[h] + 1
                      /\ event'[h] = event[h]
                 ELSE pc'[h] \in {"done", "oSummary"}]_allVars

C22_Witness ==
  \E h \in Handlers :
    /\ pc[h] = "getContent"
    /\ fileIdx[h] = 2
    /\ Len(comments[h]) > 0
    /\ comments[h][Len(comments[h])].type = "failed"
    /\ comments[h][Len(comments[h])].file = event[h].files[1]

SummaryFailed(h) == Has(trace[h], "summary", FALSE)

ListFailedComments(h) ==
  {i \in 1..Len(comments[h]) : comments[h][i].type = "listFailed"}

\* C23: in the opened handler, when the summary invocation fails the rest of
\* the pipeline is aborted, the pull request body is not updated, and exactly
\* one failure comment is posted for that failure.
C23_SummaryFailureAborts ==
  \A h \in Handlers :
    SummaryFailed(h) =>
      /\ prBody[h] = <<>>
      /\ ~Has(trace[h], "pullsUpdate", TRUE) /\ ~Has(trace[h], "pullsUpdate", FALSE)
      /\ pc[h] \in {"oOuterCatch", "done", "crashed"}
      /\ pc[h] = "oOuterCatch" => ListFailedComments(h) = {}
      /\ pc[h] = "done" => ListFailedComments(h) = {Len(comments[h])}

C23_Witness ==
  \E h \in Handlers :
    /\ SummaryFailed(h)
    /\ pc[h] = "done"
    /\ Has(trace[h], "invoke", TRUE)
    /\ Len(comments[h]) > 3

Ended(h) == pc[h] \in {"done", "crashed"}

\* the category a failure comment has to name for a rejected call
CategoryOf(call) ==
  IF call \in {"invoke", "summary", "issueCreation", "issueUpdate"} THEN "lambda"
  ELSE IF call = "upload" THEN "storage"
  ELSE "git"

\* the calls of remote functions, of the blob store and of the git data API
FailureCalls ==
  {"invoke", "summary", "issueCreation", "issueUpdate", "upload", "getRef",
   "createRef", "createBlob", "getCommit", "createTree", "createCommit",
   "updateRef"}

\* C24: in every event handler, every failure of a remote invocation, a
\* git operation or a blob upload results in a comment on the triggering
\* pull request or issue that names the category of the failure.
C24_FailureCommentNamesCategory ==
  \A h \in Handlers :
    Ended(h) =>
      \A i \in 1..Len(trace[h]) :
        (~trace[h][i].ok /\ trace[h][i].call \in FailureCalls) =>
          \E k \in 1..Len(comments[h]) :
            /\ comments[h][k].type = "failed"
            /\ "issue" \in DOMAIN comments[h][k]
            /\ comments[h][k].issue = CategoryOf(trace[h][i].call)

IsComment(h, kind) == "kind" \in DOMAIN event[h] /\ event[h].kind = kind

Triggered(h) == IncludesPhrase(event[h].body, Trigger)

NothingDone(h) ==
  /\ trace[h] = <<>> /\ comments[h] = <<>>
  /\ pulls = {} /\ \A b \in DOMAIN refs : refs[b] = BaseCommit0
  /\ summaries[h] = <<>> /\ prBody[h] = <<>>

\* C26: a discussion comment containing the trigger token causes exactly one
\* issue-creation invocation whose content is the full comment body, then
\* the creation of exactly one issue with the returned title and body, and
\* no other API call on the repository.
C26_DiscussionCreatesOneIssue ==
  \A h \in Handlers :
    (IsComment(h, "discussion") /\ Triggered(h)) =>
      LET t == trace[h] IN
        /\ comments[h] = <<>> /\ pulls = {} /\ prBody[h] = <<>>
        /\ \A b \in DOMAIN refs : refs[b] = BaseCommit0
        /\ Len(t) <= 2
        /\ Len(t) >= 1 =>
             /\ t[1].call = "issueCreation"
             /\ t[1].arg = event[h].body
        /\ Len(t) = 2 =>
             /\ t[1].ok
             /\ t[2].call = "issuesCreate"
             /\ t[2].arg = t[1].result
        /\ pc[h] = "done" => (Len(t) = 2 /\ t[2].ok)
        /\ pc[h] = "issuesCreate" => Len(t) = 1
        /\ pc[h] = "issueCreation" => Len(t) = 0

C26_Witness ==
  \E h \in Handlers :
    /\ IsComment(h, "discussion") /\ Triggered(h)
    /\ Len(event[h].body) > Len(Trigger)
    /\ pc[h] = "done"
    /\ trace[h][2].arg = "i2"

\* C27: events that do not qualify are ignored: a comment without the
\* trigger substring and a closed pull request that was not merged cause no
\* remote invocation, no upload and no source-control API call.
C27_UnqualifiedEventsIgnored ==
  /\ [](\A h \in Handlers :
          ((IsComment(h, "discussion") \/ IsComment(h, "issue")) /\ ~Triggered(h))
            => (pc[h] = "done" /\ NothingDone(h)))
  /\ [][\A h \in Handlers :
          (pc[h] = "guard" /\ ~event[h].merged /\ pc'[h] # "guard") =>
            (pc'[h] = "done" /\ NothingDone(h) /\ NothingDone(h)')]_allVars

C27_Witness ==
  \E h \in Handlers :
    /\ IsComment(h, "issue") /\ ~Triggered(h)
    /\ event[h].body = <<"s", "f", "!">>
    /\ pc[h] = "done"

\* a closed pull request that was not merged has been received
C27_WitnessClosed ==
  \E h \in Handlers : pc[h] = "guard" /\ ~event[h].merged /\ event[h].headRef = Feat

\* -------------------------------------------------- configuration claims
\* C28: when a required configuration item is missing (the address of one of
\* the five remote functions, the gateway root or the token) initialisation
\* fails before a handler is registered, so no invocation by a handler
\* fails at first use for a missing address.
C28_MissingConfigFatalAtStartup ==
  /\ boot = "registered" =>
       /\ \A f \in Functions : invokers.address[f] # Unset
       /\ variant = "gateway" => (invokers.root # Unset /\ invokers.apiToken # Unset)
  /\ used # <<>> => used.outcome # "addressMissing"

\* C30: once startup validation has passed, the configuration and what the
\* registered invokers captured never change.
C30_ConfigurationReadOnly ==
  [][boot = "registered" => UNCHANGED <<config, invokers>>]_allVars

\* ---------------------------------------------------- logging claims
LogOf(i) == SelectSeq(blog, LAMBDA r : r.by = "invoke" /\ r.i = i)

\* C29: every call of invoke, one that fails and one made without an
\* address included, writes an entry record before any request is sent and
\* afterwards an exit record with the duration and the outcome of the call.
C29_EntryAndExitLogged ==
  bpc # "idle" =>
    \A i \in 1..Len(bsettled) :
      /\ Len(LogOf(i)) >= 1 /\ LogOf(i)[1].event = "invoking"
      /\ bsettled[i] # Pending =>
           /\ Len(LogOf(i)) = 2
           /\ LogOf(i)[2].event \in {"completed", "failed"}
           /\ "duration" \in DOMAIN LogOf(i)[2]

\* --------------------------------------------------- pipeline claims
FileCalls(h) ==
  SelectSeq(trace[h], LAMBDA e : e.call \in {"getContent", "upload", "invoke"})

IsCall(e, call, ok) == e.call = call /\ e.ok = ok

\* the step in which getContent returned a directory listing
SkipsDirectory(h) ==
  /\ pc[h] \in {"getContent", "oGetContent"}
  /\ pc'[h] \notin {"getContent", "oGetContent", "upload", "oUpload", "fileCatch", "oFileCatch"}
     \/ (pc'[h] = pc[h] /\ fileIdx'[h] = fileIdx[h] + 1)

\* C31: within one file the content is fetched, then uploaded, then the
\* remote function is invoked once with file_id equal to the uploaded key,
\* then the result is reported; no step starts before the previous one
\* succeeded, and a directory entry causes no upload, invocation or comment.
C31_FilePipelineSequential ==
  /\ [](\A h \in Handlers :
          LET s == FileCalls(h) IN
          /\ \A i \in 1..Len(s) :
               /\ s[i].call = "upload" => (i > 1 /\ IsCall(s[i-1], "getContent", TRUE))
               /\ s[i].call = "invoke" => (i > 1 /\ IsCall(s[i-1], "upload", TRUE))
          /\ local[h].fileId # <<>> => local[h].fileId = local[h].uploaded
          /\ pc[h] \in {"invoke", "oInvoke", "getRef", "oComment"} =>
               local[h].uploaded = UniqueFileName(FilePath(h))
          /\ Cardinality({k \in 1..Len(comments[h]) : comments[h][k].type = "analysis"})
               <= Cardinality({i \in 1..Len(s) : IsCall(s[i], "invoke", TRUE)})
          /\ pc[h] \in {"getRef", "oComment"} =>
               (Len(s) > 0 /\ IsCall(s[Len(s)], "invoke", TRUE)))
  /\ [][\A h \in Handlers :
          SkipsDirectory(h) =>
            /\ comments'[h] = comments[h]
            /\ trace'[h][Len(trace'[h])].call = "getContent"
            /\ local'[h] = NoLocal]_allVars

C31_Witness ==
  \E h \in Handlers :
    /\ pc[h] = "oComment" /\ fileIdx[h] = 2
    /\ local[h].fileId = UniqueFileName(PathAB)
    /\ Cardinality({i \in 1..Len(trace[h]) : IsCall(trace[h][i], "invoke", TRUE)}) = 1
    /\ Cardinality({i \in 1..Len(trace[h]) : IsCall(trace[h][i], "getContent", TRUE)}) = 2

SummaryCalls(h) == {i \in 1..Len(trace[h]) : trace[h][i].call = "summary"}

\* C32: in the opened handler the summary function is invoked once per
\* event, after every changed file has been processed, and its input has one
\* entry for exactly the files whose analysis invocation succeeded (also
\* when there is none).
C32_SummaryOfSucceededFiles ==
  \A h \in Handlers :
    /\ Cardinality(SummaryCalls(h)) <= 1
    /\ pc[h] = "oUpdate" => Cardinality(SummaryCalls(h)) = 1
    /\ SummarySent(h) =>
         /\ fileIdx[h] >= Len(event[h].files)
         /\ DOMAIN summaries[h].sent = DOMAIN own[h]
         /\ \A f \in DOMAIN own[h] : \E i \in 1..Len(event[h].files) : event[h].files[i] = f

UpdateCalls(h) == {i \in 1..Len(trace[h]) : trace[h][i].call = "pullsUpdate"}

\* C33: the pull request body is updated at most once per opened event and
\* only after the summary invocation succeeded; the new body is the summary,
\* a separator and the body the pull request had in the event (nothing when
\* it had none), so no text of the description is discarded.
C33_BodyKeepsDescription ==
  \A h \in Handlers :
    /\ Cardinality(UpdateCalls(h)) <= 1
    /\ \A i \in UpdateCalls(h) :
         \E j \in 1..(i - 1) : IsCall(trace[h][j], "summary", TRUE)
    /\ prBody[h] # <<>> =>
         LET old == IF prBody[h].old.null THEN <<>> ELSE prBody[h].old.text
             new == prBody[h].body
         IN /\ Has(trace[h], "pullsUpdate", TRUE)
            /\ Len(new) = Len(summaries[h].response) + 1 + Len(old)
            /\ SubSeq(new, 1, Len(summaries[h].response)) = summaries[h].response
            /\ SubSeq(new, Len(new) - Len(old) + 1, Len(new)) = old

C33_Witness ==
  \E h \in Handlers :
    /\ pc[h] = "done"
    /\ prBody[h] # <<>>
    /\ ~prBody[h].old.null /\ prBody[h].old.text = <<"d">>
    /\ prBody[h].body = <<"s2", "\n\n---\n\n", "d">>

\* a head branch made by the publish step or marked as documented
BotHead(h) ==
  /\ "headRef" \in DOMAIN event[h]
  /\ \/ StartsWith(event[h].headRef, DocsPrefix)
     \/ EndsWith(event[h].headRef, DocumentedSuffix)

C35_PartialOnlyIfCreateFailed ==
  [][\A h \in Handlers :
       (/\ Len(comments'[h]) = Len(comments[h]) + 1
        /\ comments'[h][Len(comments'[h])].type = "partial")
         => Has(trace[h], "pullsCreate", FALSE)]_allVars

\* C36: ApiGatewayService.createRetryHandler around invokeEndpoint retries
\* every retryable failure (timeout, network error, HTTP 5xx) until success
\* or until maxRetries attempts were made, for every endpoint path and every
\* status text: a retryable failure is never treated as permanent.
C36_RetryableNeverPermanent ==
  (RetryCalled /\ rcfg.kind = "gateway" /\ rpc = "thrown") =>
    \/ rout.value.id = rcfg.maxRetries
    \/ PermanentRaw(rcfg.script[rout.value.id])

\* C37: for an issue comment with the trigger token the handler invokes the
\* issue-update function once with the issue's body and the comment body,
\* then updates the issue with the returned values, then adds the reaction,
\* in this order; a failed invocation leaves the issue without update and
\* reaction, a failed update leaves the comment without reaction.
C37_IssueUpdateThenReaction ==
  \A h \in Handlers :
    (IsComment(h, "issue") /\ Triggered(h)) =>
      LET t == trace[h] IN
        /\ Len(t) <= 3
        /\ Len(t) >= 1 =>
             /\ t[1].call = "issueUpdate"
             /\ t[1].arg = [issue_content |-> event[h].issue,
                            issue_comment |-> event[h].body]
        /\ Len(t) >= 2 =>
             /\ t[1].ok
             /\ t[2].call = "issuesUpdate" /\ t[2].arg = t[1].result
        /\ Len(t) = 3 => (t[2].ok /\ t[3].call = "reaction" /\ t[3].arg = "eyes")
        /\ pc[h] = "done" => (Len(t) = 3 /\ t[3].ok)
        /\ pc[h] = "crashed" => ~t[Len(t)].ok
        /\ comments[h] = <<>>

C37_Witness ==
  \E h \in Handlers :
    /\ IsComment(h, "issue") /\ Triggered(h)
    /\ event[h].issue = <<"t">>
    /\ pc[h] = "done"
    /\ trace[h][2].arg = "i1"

\* ------------------------------------------------------ options claims
WithOptions == used # <<>> /\ "options" \in DOMAIN used

\* C38: the timeout of a request is the per-call options.timeout when given,
\* else the default given when the invoker was created, else the service
\* default; per-call headers are added to the default headers and win over a
\* default header of the same name.
C38_OptionsPrecedence ==
  WithOptions =>
    LET o == used.options
        d == used.defaultOptions
    IN /\ used.timeout = IF "timeout" \in DOMAIN o THEN o.timeout
                         ELSE IF "timeout" \in DOMAIN d THEN d.timeout
                         ELSE invokers.timeout
       /\ \A name \in DOMAIN HeadersOf(o) : used.headers[name] = HeadersOf(o)[name]
       /\ \A name \in DOMAIN HeadersOf(d) \ DOMAIN HeadersOf(o) :
            /\ name \in DOMAIN used.headers
            /\ used.headers[name] = HeadersOf(d)[name]
       /\ "Content-Type" \in DOMAIN used.headers

\* ------------------------------------------------------ masking claims
LogsUrl == used # <<>> /\ "logged" \in DOMAIN used

\* C39: for two URLs that differ only in query string, fragment, user name
\* or password maskUrl returns the same text; for a host name longer than 10
\* characters the result shows only its first 8 and last 3 characters; so
\* no record written by invoke holds the credentials or the query of a URL.
C39_MaskUrlHidesSecrets ==
  LogsUrl =>
    LET c == used.parts
        n == Len(c.host)
    IN /\ \A userinfo \in {<<>>, <<"U", ":", "P">>, <<"x">>},
             query \in {<<>>, <<"K", "=", "V">>, <<"y">>},
             fragment \in {<<>>, <<"F">>, <<"z">>} :
            MaskUrl(UrlOf([c EXCEPT !.userinfo = userinfo, !.query = query,
                                    !.fragment = fragment])) = used.logged
       /\ n > 10 =>
            used.logged = <<"h", "t", "t", "p", "s", ":", "/", "/">>
                          \o SubSeq(c.host, 1, 8) \o <<"*", "*", "*">>
                          \o SubSeq(c.host, n - 2, n)
                          \o (IF c.path = <<>> THEN <<"/">> ELSE c.path)
       /\ \A secret \in {<<"U">>, <<"P">>, <<"K">>, <<"V">>, <<"@">>, <<"?">>} :
            ~IncludesPhrase(used.logged, secret)

C39_Witness ==
  /\ LogsUrl
  /\ used.parts.userinfo # <<>> /\ used.parts.query # <<>>
  /\ used.parts.fragment # <<>> /\ used.parts.port # <<>>
  /\ Len(used.parts.host) = 16
  /\ used.logged = <<"h", "t", "t", "p", "s", ":", "/", "/", "a", "b", "c", "d", "e",
                     "f", "g", "h", "*", "*", "*", "a", "w", "s", "/", "r", "u", "n">>

====
